---- MODULE Spec2Model ----
(***************************************************************************)
(* Model of the IFC export engine (exportModifiedIfc and its helpers), the  *)
(* model store (useModelStore) and the rule validation engine              *)
(* (checkElement, runValidation, ValidationService) of IfcModelChecker.    *)
(*                                                                         *)
(* Texts are sequences of symbols.  A symbol is one character, except that *)
(* the STEP keywords (HEADER, ENDSEC, DATA, IFCPROPERTYSINGLEVALUE, ...)   *)
(* are one symbol each; no text of the model contains a keyword in part,   *)
(* so substring search on symbols coincides with search on characters.     *)
(***************************************************************************)
EXTENDS Integers, Sequences, FiniteSets, TLC

VARIABLES
    ifcFile,          \* the file handed to loadFile, or NoFile
    originalIfcText,  \* useModelStore.originalIfcText : null | string
    elements,         \* useModelStore.elements, in insertion order
    isLoading,        \* useModelStore.isLoading
    exportOut,        \* outcome of the most recent exportModifiedIfc call, or NoCall
    fmtIn,            \* argument of formatIfcValue
    fmtOut,           \* value returned by formatIfcValue for fmtIn, or NoCall
    validationResult,    \* useValidationStore.validationResult : null | result
    isValidating,        \* useValidationStore.isValidating
    validationProgress,  \* useValidationStore.validationProgress
    workers,          \* the validation workers created so far, in creation order
    serviceWorker,    \* ValidationService.worker: index into workers, 0 for null
    ceIn,             \* arguments of checkElement: [element, rule]
    ceOut,            \* issues returned by checkElement for ceIn, or NoCall
    idsIn,            \* argument of idsToRulePack: a list of IDS specifications
    idsOut,           \* rule pack returned by idsToRulePack for idsIn, or NoCall
    rulePacks,        \* useValidationStore.rulePacks, in insertion order
    importOut,        \* outcome of the most recent IDS import, or NoCall
    undoStack,        \* useEditHistoryStore.undoStack, oldest first
    redoStack,        \* useEditHistoryStore.redoStack, oldest first
    historyOut,       \* the most recent edit history call and its return value, or NoCall
    hiddenIDs,        \* useVisibilityStore.hiddenIDs
    isolatedIDs       \* useVisibilityStore.isolatedIDs : null | set of ids

storeVars == <<ifcFile, originalIfcText, elements, isLoading>>

exportVars == <<storeVars, exportOut>>

formatVars == <<fmtIn, fmtOut>>

validationVars == <<validationResult, isValidating, validationProgress, workers, serviceWorker>>

checkVars == <<ceIn, ceOut>>

idsVars == <<idsIn, idsOut>>

importVars == <<rulePacks, importOut>>

historyVars == <<undoStack, redoStack, historyOut>>

visibilityVars == <<hiddenIDs, isolatedIDs>>
restVars == <<idsVars, importVars, historyVars, visibilityVars>>

vars == <<exportVars, formatVars, validationVars, checkVars, restVars>>

NoCall == [call |-> "none"]

NoFile == [layout |-> "nofile"]

\* the validation store and service as constructed
ValidationIdle ==
    /\ validationResult = [t |-> "null"]
    /\ isValidating = FALSE
    /\ validationProgress = 0
    /\ workers = <<>>
    /\ serviceWorker = 0

\* no call of checkElement under way
CheckIdle ==
    /\ ceIn = NoCall
    /\ ceOut = NoCall

\* no IDS file chosen yet: no file is being read, no import has ended
NoImport == [calls |-> 0, reading |-> <<>>, completed |-> 0, outcome |-> NoCall]

\* no IDS conversion under way, no imported rule pack, an empty edit history
RestIdle ==
    /\ idsIn = NoCall
    /\ idsOut = NoCall
    /\ rulePacks = <<>>
    /\ importOut = NoImport
    /\ undoStack = <<>>
    /\ redoStack = <<>>
    /\ historyOut = NoCall
    /\ hiddenIDs = {}
    /\ isolatedIDs = [t |-> "null"]

(***************************************************************************)
(* JavaScript values.  A number n is held as the integer n * 10^7, which   *)
(* keeps one digit more than toFixed(6) prints.                            *)
(***************************************************************************)
JsNull == [t |-> "null"]
JsUndefined == [t |-> "undefined"]
JsBool(b) == [t |-> "boolean", b |-> b]
JsStr(s) == [t |-> "string", s |-> s]
JsNum(k) == [t |-> "number", k |-> k]

NumScale == 10000000

JsInt(n) == JsNum(n * NumScale)

Digit == <<"0", "1", "2", "3", "4", "5", "6", "7", "8", "9">>

DigitSyms == {Digit[i] : i \in 1..10}

RECURSIVE Digits(_)
\* decimal digits of a natural number
Digits(n) == IF n < 10 THEN <<Digit[n + 1]>> ELSE Digits(n \div 10) \o <<Digit[(n % 10) + 1]>>

Abs(n) == IF n < 0 THEN -n ELSE n

RECURSIVE DigitsValueOf(_)
\* the natural number that a digit string denotes (the empty string gives 0)
DigitsValueOf(s) ==
    IF s = <<>> THEN 0
    ELSE 10 * DigitsValueOf(SubSeq(s, 1, Len(s) - 1))
         + (CHOOSE i \in 0..9 : Digit[i + 1] = s[Len(s)])

RECURSIVE PadDigits(_, _)
\* the w low decimal digits of n, with leading zeros
PadDigits(n, w) == IF w = 0 THEN <<>> ELSE PadDigits(n \div 10, w - 1) \o <<Digit[(n % 10) + 1]>>

\* Number.isInteger
NumberIsInteger(k) == k % NumScale = 0

\* String(n) for an integral number n (Number::toString, radix 10)
IntToString(k) == (IF k < 0 THEN <<"-">> ELSE <<>>) \o Digits(Abs(k) \div NumScale)

\* Number.prototype.toFixed(6): n / 10^6 closest to the number, the larger n on a tie
ToFixed6(k) ==
    LET n == (Abs(k) + 5) \div 10
        body == Digits(n \div 1000000) \o <<".">> \o PadDigits(n % 1000000, 6)
    IN  (IF k < 0 THEN <<"-">> ELSE <<>>) \o body

RECURSIVE TrimTrailingZeros(_)
\* s.replace(/0+$/, '')
TrimTrailingZeros(s) ==
    IF Len(s) > 0 /\ s[Len(s)] = "0" THEN TrimTrailingZeros(SubSeq(s, 1, Len(s) - 1)) ELSE s

\* s.replace(/\.$/, '.0')
FixTrailingDot(s) == IF Len(s) > 0 /\ s[Len(s)] = "." THEN s \o <<"0">> ELSE s

\* internal quotes are left as they are
EscapeQuotesNone(s) == s

RECURSIVE EscapeQuotes(_)
\* s.replace(/'/g, "''")
EscapeQuotes(s) ==
    IF s = <<>> THEN <<>>
    ELSE (IF Head(s) = "'" THEN <<"'", "'">> ELSE <<Head(s)>>) \o EscapeQuotes(Tail(s))

formatIfcValue(value) ==
    IF value.t \in {"null", "undefined"} THEN <<"$">>
    ELSE IF value.t = "boolean" THEN (IF value.b THEN <<".", "T", ".">> ELSE <<".", "F", ".">>)
    ELSE IF value.t = "number" THEN
        (IF NumberIsInteger(value.k) THEN IntToString(value.k)
         ELSE FixTrailingDot(TrimTrailingZeros(ToFixed6(value.k))))
    ELSE <<"'">> \o EscapeQuotes(value.s) \o <<"'">>

(***************************************************************************)
(* JavaScript string primitives on texts.  Indices are 0-based as in the   *)
(* source, -1 means "not found".                                           *)
(***************************************************************************)
Min(a, b) == IF a < b THEN a ELSE b

Max(a, b) == IF a > b THEN a ELSE b

\* String.prototype.indexOf(pat, from)
IndexOfFrom(s, pat, from) ==
    LET lo == Max(from, 0)
        hits == {i \in lo..(Len(s) - Len(pat)) : SubSeq(s, i + 1, i + Len(pat)) = pat}
    IN  IF hits = {} THEN -1 ELSE CHOOSE i \in hits : \A j \in hits : i <= j

IndexOf(s, pat) == IndexOfFrom(s, pat, 0)

\* String.prototype.substring(a, b) and substring(a)
Substring(s, a, b) == SubSeq(s, Min(a, b) + 1, Max(a, b))

SubstringFrom(s, a) == SubSeq(s, a + 1, Len(s))

RECURSIVE ExpandReplacement(_, _, _, _)
\* GetSubstitution: the replacement patterns of String.prototype.replace, which
\* are "$" followed by "$", "&", a backquote or a quote.  The backquote
\* character is written as the symbol "BACKQUOTE".
ExpandReplacement(repl, matched, before, after) ==
    IF repl = <<>> THEN <<>>
    ELSE IF Head(repl) = "$" /\ Len(repl) >= 2 /\ repl[2] \in {"$", "&", "BACKQUOTE", "'"} THEN
        (CASE repl[2] = "$" -> <<"$">>
           [] repl[2] = "&" -> matched
           [] repl[2] = "BACKQUOTE" -> before
           [] repl[2] = "'" -> after)
        \o ExpandReplacement(SubSeq(repl, 3, Len(repl)), matched, before, after)
    ELSE <<Head(repl)>> \o ExpandReplacement(Tail(repl), matched, before, after)

\* String.prototype.replace(pat, repl) with a string pattern: first occurrence only
StringReplace(s, pat, repl) ==
    LET i == IndexOf(s, pat)
    IN  IF i = -1 THEN s
        ELSE LET before == Substring(s, 0, i)
                 after == SubstringFrom(s, i + Len(pat))
             IN  before \o ExpandReplacement(repl, pat, before, after) \o after

(***************************************************************************)
(* STEP keywords, one symbol each, and the literals the export searches.   *)
(***************************************************************************)
HeaderTok == <<"HEADER", ";">>

EndsecTok == <<"ENDSEC", ";">>

Whitespace == {" ", "\n"}

\* `#${patch.expressID}`
IdStr(expressID) == <<"#">> \o Digits(expressID)

extractHeaderSection(text) ==
    LET headerStart == IndexOf(text, HeaderTok)
        headerEnd == IndexOfFrom(text, EndsecTok, headerStart)
    IN  IF headerStart = -1 \/ headerEnd = -1 THEN <<>>
        ELSE Substring(text, headerStart, headerEnd + Len(EndsecTok))

(***************************************************************************)
(* Patch mode                                                              *)
(***************************************************************************)
\* the absent-to-value transition is patched like any other
PatchAbortsNoAbsentCheck(lineStart, lineEnd, oldValue, oldIdx) ==
    lineStart = -1 \/ lineEnd = -1 \/ oldIdx = -1

\* the four early "return null" of the loop of tryPatchExport
PatchAborts(lineStart, lineEnd, oldValue, oldIdx) ==
    lineStart = -1 \/ lineEnd = -1 \/ oldValue = <<"$">> \/ oldIdx = -1

\* one iteration of the loop of tryPatchExport: the text after the patch, or null
PatchStep(result, patch) ==
    LET lineStart == IndexOf(result, IdStr(patch.expressID) \o <<"=">>)
        lineEnd == IndexOfFrom(result, <<";">>, lineStart)
        originalLine == Substring(result, lineStart, lineEnd + 1)
        oldIdx == IF lineStart = -1 \/ lineEnd = -1 THEN -1
                  ELSE IndexOf(originalLine, patch.oldValue)
        newLine == Substring(originalLine, 0, oldIdx) \o patch.newValue
                   \o SubstringFrom(originalLine, oldIdx + Len(patch.oldValue))
    IN  IF PatchAborts(lineStart, lineEnd, patch.oldValue, oldIdx) THEN JsNull
        ELSE JsStr(Substring(result, 0, lineStart) \o newLine
                   \o SubstringFrom(result, lineEnd + 1))

RECURSIVE PatchLoop(_, _)
PatchLoop(result, patches) ==
    IF patches = <<>> THEN JsStr(result)
    ELSE LET r == PatchStep(result, Head(patches))
         IN  IF r.t = "null" THEN JsNull ELSE PatchLoop(r.s, Tail(patches))

tryPatchExport(originalText, patches) == PatchLoop(originalText, patches)

(***************************************************************************)
(* Rewrite mode.  rebuildPropertyLine matches the line against a regular   *)
(* expression of three groups: the record up to the nominal value (id,     *)
(* "=", keyword, "(", a non-empty field without comma, a field without     *)
(* comma, each followed by a comma), the nominal value (a non-empty run    *)
(* without comma or ")" and an optional bracket group), and the rest (an   *)
(* optional comma with a run without ")", an optional ";").  The matcher   *)
(* follows the backtracking order of the regex engine.                     *)
(***************************************************************************)
\* number of leading symbols of s that lie in the set cls
RECURSIVE RunLength(_, _)
RunLength(s, cls) == IF s /= <<>> /\ Head(s) \in cls THEN 1 + RunLength(Tail(s), cls) ELSE 0

\* number of leading symbols of s that lie outside the set excl
RECURSIVE RunLengthNot(_, _)
RunLengthNot(s, excl) == IF s /= <<>> /\ Head(s) \notin excl THEN 1 + RunLengthNot(Tail(s), excl) ELSE 0

\* group 1 of the regex; the length matched, or -1
MatchPrefix(line) ==
    LET d == RunLength(SubstringFrom(line, 1), DigitSyms)
        p1 == 1 + d                                   \* index of "="
        w1 == RunLength(SubstringFrom(line, p1 + 1), Whitespace)
        p2 == p1 + 1 + w1                             \* index of the keyword
        w2 == RunLength(SubstringFrom(line, p2 + 1), Whitespace)
        p3 == p2 + 1 + w2                             \* index of "("
        f1 == RunLengthNot(SubstringFrom(line, p3 + 1), {","})
        p4 == p3 + 1 + f1                             \* index of the first ","
        f2 == RunLengthNot(SubstringFrom(line, p4 + 1), {","})
        p5 == p4 + 1 + f2                             \* index of the second ","
        w3 == RunLength(SubstringFrom(line, p5 + 1), Whitespace)
    IN  IF /\ Len(line) >= 1 /\ line[1] = "#"
           /\ d >= 1
           /\ p1 < Len(line) /\ line[p1 + 1] = "="
           /\ p2 < Len(line) /\ line[p2 + 1] = "IFCPROPERTYSINGLEVALUE"
           /\ p3 < Len(line) /\ line[p3 + 1] = "("
           /\ f1 >= 1
           /\ p4 < Len(line) /\ line[p4 + 1] = ","
           /\ p5 < Len(line) /\ line[p5 + 1] = ","
        THEN p5 + 1 + w3
        ELSE -1

\* group 3 of the regex, which must reach the end of the line
MatchSuffix(rest) ==
    LET r == SubstringFrom(rest, RunLength(rest, Whitespace))
    IN  \/ r = <<>>
        \/ r[1] = "," /\ RunLengthNot(r, {")"}) = Len(r)
        \/ r[1] = ";" /\ RunLength(Tail(r), Whitespace) = Len(r) - 1

\* group 2 of the regex from index v0; the end index of the first alternative
\* the engine accepts (longest run first, with the bracket group before
\* without), or -1
MatchValue(line, v0) ==
    LET run == RunLengthNot(SubstringFrom(line, v0), {",", ")"})
        GroupEnd(k) ==
            LET open == v0 + k
                close == IndexOfFrom(line, <<")">>, open + 1)
            IN  IF open < Len(line) /\ line[open + 1] = "(" /\ close /= -1 THEN close + 1 ELSE -1
        WithGroup(k) == GroupEnd(k) /= -1 /\ MatchSuffix(SubstringFrom(line, GroupEnd(k)))
        Without(k) == MatchSuffix(SubstringFrom(line, v0 + k))
        good == {k \in 1..run : WithGroup(k) \/ Without(k)}
        best == CHOOSE k \in good : \A j \in good : j <= k
    IN  IF good = {} THEN -1
        ELSE IF WithGroup(best) THEN GroupEnd(best) ELSE v0 + best

\* the numeric-literal test of rebuildPropertyLine: optional minus, digits, optional fraction
IsNumericLiteral(s) ==
    LET body == IF s /= <<>> /\ Head(s) = "-" THEN Tail(s) ELSE s
        a == RunLength(body, DigitSyms)
        frac == SubstringFrom(body, a)
    IN  /\ a >= 1
        /\ \/ frac = <<>>
           \/ /\ Len(frac) >= 2 /\ frac[1] = "."
              /\ RunLength(Tail(frac), DigitSyms) = Len(frac) - 1

rebuildPropertyLine(line, newValue) ==
    LET v0 == MatchPrefix(line)
        vEnd == IF v0 = -1 THEN -1 ELSE MatchValue(line, v0)
        prefix == Substring(line, 0, v0)
        suffix == SubstringFrom(line, vEnd)
        wrappedValue ==
            IF newValue = <<"$">> THEN <<"$">>
            ELSE IF newValue = <<".", "T", ".">> \/ newValue = <<".", "F", ".">>
                 THEN <<"IFCBOOLEAN", "(">> \o newValue \o <<")">>
            ELSE IF IsNumericLiteral(newValue) THEN <<"IFCREAL", "(">> \o newValue \o <<")">>
            ELSE IF newValue /= <<>> /\ Head(newValue) = "'" /\ newValue[Len(newValue)] = "'"
                 THEN <<"IFCLABEL", "(">> \o newValue \o <<")">>
            ELSE newValue
    IN  IF v0 = -1 \/ vEnd = -1 THEN JsNull ELSE JsStr(prefix \o wrappedValue \o suffix)

\* one iteration of the patch loop of rewriteExport: the text after the patch
RewriteStep(result, patch) ==
    LET lineStart == IndexOf(result, IdStr(patch.expressID) \o <<"=">>)
        lineEnd == IndexOfFrom(result, <<";">>, lineStart)
        originalLine == Substring(result, lineStart, lineEnd + 1)
        newLine == rebuildPropertyLine(originalLine, patch.newValue)
    IN  IF lineStart = -1 THEN result
        ELSE IF lineEnd = -1 THEN result
        ELSE IF newLine.t = "null" THEN result
        ELSE Substring(result, 0, lineStart) \o newLine.s \o SubstringFrom(result, lineEnd + 1)

RECURSIVE ApplyRewrites(_, _)
ApplyRewrites(result, patches) ==
    IF patches = <<>> THEN result
    ELSE ApplyRewrites(RewriteStep(result, Head(patches)), Tail(patches))

\* the header restoration that ends rewriteExport
RestoreHeader(result, headerSection) ==
    LET newHeaderSection == extractHeaderSection(result)
    IN  IF newHeaderSection /= headerSection
        THEN StringReplace(result, newHeaderSection, headerSection)
        ELSE result

rewriteExport(originalText, patches) ==
    RestoreHeader(ApplyRewrites(originalText, patches), extractHeaderSection(originalText))

(***************************************************************************)
(* Model store and export entry point                                      *)
(***************************************************************************)
\* flattening of a sequence of sequences, in order
RECURSIVE FlatMap(_)
FlatMap(ss) ==
    IF Len(ss) = 0 THEN <<>>
    ELSE IF Len(ss) = 1 THEN ss[1]
    ELSE FlatMap(SubSeq(ss, 1, Len(ss) \div 2))
         \o FlatMap(SubSeq(ss, Len(ss) \div 2 + 1, Len(ss)))

\* s.filter(Test) as the sequence of the kept indices' elements
RECURSIVE SelectIdx(_, _)
SelectIdx(n, keep) ==
    IF n = 0 THEN <<>>
    ELSE SelectIdx(n - 1, keep) \o (IF n \in keep THEN <<n>> ELSE <<>>)

\* a read-only property set contributes patches like an editable one
CollectsPropertyAnyPset(pset, prop) ==
    prop.modified /\ prop.value /= prop.originalValue

\* a modified property contributes a patch whatever its value
CollectsPropertyModifiedOnly(pset, prop) ==
    pset.isEditable /\ prop.modified

\* the two conditions under which collectModifiedProperties pushes a patch
CollectsProperty(pset, prop) ==
    pset.isEditable /\ prop.modified /\ prop.value /= prop.originalValue

\* the patches of one property set, in property order
PsetPatches(pset) ==
    LET props == pset.properties
        keep == {i \in 1..Len(props) : CollectsProperty(pset, props[i])}
        idx == SelectIdx(Len(props), keep)
    IN  [j \in 1..Len(idx) |->
            [expressID |-> props[idx[j]].expressID,
             propertyName |-> props[idx[j]].name,
             psetName |-> pset.name,
             oldValue |-> formatIfcValue(props[idx[j]].originalValue),
             newValue |-> formatIfcValue(props[idx[j]].value)]]

collectModifiedProperties(els) ==
    FlatMap([e \in 1..Len(els) |->
                FlatMap([q \in 1..Len(els[e].psets) |-> PsetPatches(els[e].psets[q])])])

\* JavaScript falsiness of a string-or-null value
Falsy(v) == v.t = "null" \/ (v.t = "string" /\ v.s = <<>>)

NoBlob == [t |-> "none"]

\* only the empty string counts as a missing text
NoOriginalTextOnlyEmpty(text) == text.t = "string" /\ text.s = <<>>

\* the test !originalIfcText that guards the export
NoOriginalText(text) == Falsy(text)

\* exportModifiedIfc on the store (text, els).  status "error" is the thrown
\* Error; mode records which branch produced the blob's content.
exportModifiedIfc(text, els, forceRewrite) ==
    LET patches == collectModifiedProperties(els)
        patched == IF forceRewrite THEN JsNull ELSE tryPatchExport(text.s, patches)
    IN  IF NoOriginalText(text) THEN [status |-> "error", mode |-> "none", blob |-> NoBlob]
        ELSE IF Len(patches) = 0
             THEN [status |-> "ok", mode |-> "original", blob |-> text]
        ELSE IF ~Falsy(patched)
             THEN [status |-> "ok", mode |-> "patch", blob |-> patched]
        ELSE [status |-> "ok", mode |-> "rewrite", blob |-> JsStr(rewriteExport(text.s, patches))]

\* an update that clears the flag when the value is the original one again
updatePropertyValueClearing(els, elementID, psetName, propertyName, value) ==
    LET eIdx == {i \in 1..Len(els) : els[i].expressID = elementID}
        e == CHOOSE i \in eIdx : TRUE
        qIdx == {i \in 1..Len(els[e].psets) : els[e].psets[i].name = psetName}
        q == CHOOSE i \in qIdx : \A j \in qIdx : i <= j
        props == els[e].psets[q].properties
        pIdx == {i \in 1..Len(props) : props[i].name = propertyName}
        p == CHOOSE i \in pIdx : \A j \in pIdx : i <= j
    IN  IF eIdx = {} THEN els
        ELSE IF qIdx = {} THEN els
        ELSE IF pIdx = {} THEN els
        ELSE [els EXCEPT ![e].psets[q].properties[p] =
                            [@ EXCEPT !.value = value,
                                      !.modified = (value /= props[p].originalValue)]]

\* useModelStore.updatePropertyValue on the element list
updatePropertyValue(els, elementID, psetName, propertyName, value) ==
    LET eIdx == {i \in 1..Len(els) : els[i].expressID = elementID}
        e == CHOOSE i \in eIdx : TRUE
        qIdx == {i \in 1..Len(els[e].psets) : els[e].psets[i].name = psetName}
        q == CHOOSE i \in qIdx : \A j \in qIdx : i <= j
        props == els[e].psets[q].properties
        pIdx == {i \in 1..Len(props) : props[i].name = propertyName}
        p == CHOOSE i \in pIdx : \A j \in pIdx : i <= j
    IN  IF eIdx = {} THEN els
        ELSE IF qIdx = {} THEN els
        ELSE IF pIdx = {} THEN els
        ELSE [els EXCEPT ![e].psets[q].properties[p] =
                            [@ EXCEPT !.value = value, !.modified = TRUE]]

(***************************************************************************)
(* The files a session loads.  The IFC parser is an external library; a    *)
(* file is given by its text together with the elements the parser         *)
(* reports for it.  Every file holds the elements f.entities; the first    *)
(* has an editable property set (properties #1 and #2) and a read-only one *)
(* (property #3), the others have none.                                    *)
(***************************************************************************)
\* the nominal value of a property as the STEP record carries it
NominalValue(value) ==
    IF value.t = "null" THEN <<"$">>
    ELSE IF value.t = "boolean" THEN <<"IFCBOOLEAN", "(">> \o formatIfcValue(value) \o <<")">>
    ELSE IF value.t = "number" THEN
        (IF NumberIsInteger(value.k) THEN <<"IFCINTEGER", "(">> ELSE <<"IFCREAL", "(">>)
        \o formatIfcValue(value) \o <<")">>
    ELSE <<"IFCLABEL", "(">> \o formatIfcValue(value) \o <<")">>

\* the three parts of a property record: before, the nominal value, after.
\* Shape "spaced" writes "#id =", which STEP allows.
RecordParts(id, name, value, shape) ==
    <<IdStr(id) \o (IF shape = "spaced" THEN <<" ">> ELSE <<>>)
        \o <<"=", "IFCPROPERTYSINGLEVALUE", "(">> \o formatIfcValue(JsStr(name)) \o <<",", "$", ",">>,
      NominalValue(value),
      <<",", "$", ")", ";">> >>

\* the symbols that stand for a run of word characters
WordSyms == {"Wall", "Door", "Custom", "A", "M", "N"}

\* isPsetCommon: the name has the form Pset_<word characters>Common.  The
\* name is given as the symbols "Pset_", then symbols of WordSyms, then "Common".
isPsetCommon(psetName) ==
    /\ Len(psetName) >= 3
    /\ psetName[1] = "Pset_" /\ psetName[Len(psetName)] = "Common"
    /\ \A i \in 2..(Len(psetName) - 1) : psetName[i] \in WordSyms

PsetWallCommon == <<"Pset_", "Wall", "Common">>

PsetCustom == <<"Pset_", "Custom">>

Prop1Name == <<"A">>

Prop2Name == <<"N">>

Prop3Name == <<"M">>

Prop2Original == JsStr(<<"B">>)

Prop3Original == JsStr(<<"C">>)

\* a header comment quoting a record of property #1 whose value holds a ";"
QuotedRecord(name) ==
    <<"/*">> \o IdStr(1) \o <<"=", "IFCPROPERTYSINGLEVALUE", "(">> \o formatIfcValue(JsStr(name))
    \o <<",", "$", ",", "IFCLABEL", "(", "'", "x", ";", "y", "'", ")", ",", "$", ")", ";", "*/">>

FileName == <<"FILE_NAME", "(", "'", "m", "'", ")", ";">>

Layouts == {"plain", "noheader", "quoted", "quoted$", "truncated"}

HeaderOf(layout) ==
    CASE layout = "plain" -> HeaderTok \o FileName \o EndsecTok
      [] layout = "truncated" -> HeaderTok \o FileName \o EndsecTok
      [] layout = "noheader" -> <<>>
      [] layout = "quoted" -> HeaderTok \o QuotedRecord(<<"A">>) \o FileName \o EndsecTok
      [] layout = "quoted$" -> HeaderTok \o QuotedRecord(<<"U", "S", "$">>) \o FileName \o EndsecTok

\* the text of file f as segments: id = 0 for text outside the nominal values,
\* id = n for the nominal value of property #n.  The truncated file ends
\* inside the last record.
FileSegments(f) ==
    LET r1 == RecordParts(1, Prop1Name, f.orig1, f.shape1)
        r2 == RecordParts(2, Prop2Name, Prop2Original, f.shape2)
        r3 == RecordParts(3, Prop3Name, Prop3Original, "canon")
        Fixed(t) == [id |-> 0, s |-> t]
        tail == IF f.layout = "truncated" THEN <<",", "$", ")">>
                ELSE r2[3] \o <<"\n">> \o EndsecTok
    IN  <<Fixed(HeaderOf(f.layout) \o <<"DATA", ";", "\n">> \o r3[1]), [id |-> 3, s |-> r3[2]],
          Fixed(r3[3] \o <<"\n">> \o r1[1]), [id |-> 1, s |-> r1[2]],
          Fixed(r1[3] \o <<"\n">> \o r2[1]), [id |-> 2, s |-> r2[2]],
          Fixed(tail)>>

FileText(f) ==
    IF f.layout = "empty" THEN <<>>
    ELSE FlatMap([i \in 1..Len(FileSegments(f)) |-> FileSegments(f)[i].s])

\* getDiscipline on the IFC classes of the model (DISCIPLINE_MAP, else Unknown)
getDiscipline(ifcClass) ==
    CASE ifcClass \in {<<"IfcWall">>, <<"IfcDoor">>, <<"IfcWindow">>} -> <<"Architecture">>
      [] ifcClass \in {<<"IfcBeam">>, <<"IfcColumn">>} -> <<"Structure">>
      [] ifcClass \in {<<"IfcPipeSegment">>} -> <<"MEP">>
      [] OTHER -> <<"Unknown">>

\* the express id of the first element of a file
FirstElementID == 10

\* the wall of the files of the export model
Wall1 == [ifcClass |-> <<"IfcWall">>, name |-> <<"W", "1">>]

\* what the loader builds from the parser's result for file f
ParsedElements(f) ==
    LET Mk(n, id, v) == [name |-> n, expressID |-> id, value |-> v,
                         originalValue |-> v, modified |-> FALSE]
        psets1 == <<[name |-> PsetWallCommon, isEditable |-> isPsetCommon(PsetWallCommon),
                     properties |-> <<Mk(Prop1Name, 1, f.orig1),
                                      Mk(Prop2Name, 2, Prop2Original)>>],
                    [name |-> PsetCustom, isEditable |-> isPsetCommon(PsetCustom),
                     properties |-> <<Mk(Prop3Name, 3, Prop3Original)>>]>>
    IN  [i \in 1..Len(f.entities) |->
            [expressID |-> FirstElementID + i - 1, name |-> f.entities[i].name,
             ifcClass |-> f.entities[i].ifcClass,
             discipline |-> getDiscipline(f.entities[i].ifcClass),
             psets |-> IF i = 1 \/ "sharesPsets" \in DOMAIN f.entities[i]
                       THEN psets1 ELSE <<>>]]

(***************************************************************************)
(* Bounds of the export model                                              *)
(***************************************************************************)
\* values a user types into a property field, in the order they are added
ValuePool ==
    <<JsStr(<<"B">>), JsInt(2), JsNull, JsStr(<<"A">>), JsInt(1), JsBool(TRUE),
      JsStr(<<"x", ";", "y">>), JsBool(FALSE)>>

MaxEditValues == 3

EditValues == {ValuePool[i] : i \in 1..Min(MaxEditValues, Len(ValuePool))}

Orig1Values == {JsNull, JsStr(<<"A">>), JsInt(1)}

Shapes == {"canon", "spaced"}

Files ==
    [layout : Layouts, shape1 : Shapes, shape2 : Shapes, orig1 : Orig1Values, entities : {<<Wall1>>}]
    \cup {[layout |-> "empty", shape1 |-> "canon", shape2 |-> "canon", orig1 |-> JsNull,
           entities |-> <<>>]}

(***************************************************************************)
(* Actions of the export model                                             *)
(***************************************************************************)
\* IfcLoaderService.loadFile up to the hand-over to the parser worker
LoadFile(f) ==
    /\ ~isLoading
    /\ ifcFile' = f
    /\ elements' = <<>>
    /\ originalIfcText' = JsStr(FileText(f))
    /\ isLoading' = TRUE
    /\ validationResult' = JsNull
    /\ undoStack' = <<>>
    /\ redoStack' = <<>>
    /\ exportOut' = NoCall
    /\ hiddenIDs' = {}
    /\ isolatedIDs' = JsNull
    /\ UNCHANGED <<formatVars, checkVars, idsVars, importVars, historyOut,
                   isValidating, validationProgress, workers, serviceWorker>>

\* worker.onmessage 'result' of the loader
LoadResult ==
    /\ isLoading
    /\ ifcFile.layout /= "empty"
    /\ elements' = ParsedElements(ifcFile)
    /\ isLoading' = FALSE
    /\ exportOut' = NoCall
    /\ UNCHANGED <<ifcFile, originalIfcText, formatVars, validationVars, checkVars, restVars>>

\* worker.onmessage 'error' of the loader
LoadError ==
    /\ isLoading
    /\ isLoading' = FALSE
    /\ exportOut' = NoCall
    /\ UNCHANGED <<ifcFile, originalIfcText, elements, formatVars, validationVars, checkVars, restVars>>

\* the (element, property set, property) triples of the loaded model
PropertyRefs ==
    {<<elements[e].expressID, elements[e].psets[q].name, elements[e].psets[q].properties[p].name>> :
        <<e, q, p>> \in {t \in (1..Len(elements)) \X (1..2) \X (1..2) :
                            /\ t[2] <= Len(elements[t[1]].psets)
                            /\ t[3] <= Len(elements[t[1]].psets[t[2]].properties)}}

UpdatePropertyValue(ref, value) ==
    /\ elements' = updatePropertyValue(elements, ref[1], ref[2], ref[3], value)
    /\ exportOut' = NoCall
    /\ UNCHANGED <<ifcFile, originalIfcText, isLoading, formatVars, validationVars, checkVars, restVars>>

ExportModifiedIfc(forceRewrite) ==
    /\ exportOut' = [call |-> [forceRewrite |-> forceRewrite],
                     ret |-> exportModifiedIfc(originalIfcText, elements, forceRewrite)]
    /\ UNCHANGED <<storeVars, formatVars, validationVars, checkVars, restVars>>

ExportInit ==
    /\ ifcFile = NoFile
    /\ originalIfcText = JsNull
    /\ elements = <<>>
    /\ isLoading = FALSE
    /\ exportOut = NoCall
    /\ fmtIn = JsNull
    /\ fmtOut = NoCall
    /\ ValidationIdle
    /\ CheckIdle
    /\ RestIdle

ExportNext ==
    \/ \E f \in Files : LoadFile(f)
    \/ LoadResult
    \/ LoadError
    \/ \E ref \in PropertyRefs, v \in EditValues : UpdatePropertyValue(ref, v)
    \/ \E force \in BOOLEAN : ExportModifiedIfc(force)

SpecExport == ExportInit /\ [][ExportNext]_vars

(***************************************************************************)
(* Properties of the export engine                                         *)
(***************************************************************************)
Exported == exportOut /= NoCall

\* all properties of the store, with the editability of their property set
StoreProperties ==
    {[editable |-> elements[e].psets[q].isEditable, prop |-> elements[e].psets[q].properties[p]] :
        <<e, q, p>> \in {t \in (1..Len(elements)) \X (1..2) \X (1..2) :
                            /\ t[2] <= Len(elements[t[1]].psets)
                            /\ t[3] <= Len(elements[t[1]].psets[t[2]].properties)}}

Changed(prop) == prop.modified /\ prop.value /= prop.originalValue

NoEditableChange == \A sp \in StoreProperties : sp.editable => ~Changed(sp.prop)

CurrentPatches == collectModifiedProperties(elements)

PatchSet == {CurrentPatches[i] : i \in 1..Len(CurrentPatches)}

\* C1: with no changed property in an editable property set, the exported
\* content is the stored original text, for either value of forceRewrite.
C1_RoundTrip ==
    (Exported /\ ~Falsy(originalIfcText) /\ NoEditableChange)
        => (exportOut.ret.status = "ok" /\ exportOut.ret.blob = originalIfcText)

\* C1 witness: an export of a model whose only changed property is read-only,
\* or whose edited property was set back to its original value
C1_Witness ==
    /\ Exported /\ exportOut.ret.status = "ok" /\ NoEditableChange
    /\ \E sp \in StoreProperties : sp.prop.modified
    /\ \E sp \in StoreProperties : ~sp.editable /\ Changed(sp.prop)

HasAbsentToValuePatch == \E patch \in PatchSet : patch.oldValue = <<"$">>

\* C4: when some patch has the formatted old value "$", the patch attempt
\* returns null and the export is produced by rewrite mode.
C4_AbsentOldValueRewrites ==
    (Exported /\ exportOut.ret.status = "ok" /\ HasAbsentToValuePatch)
        => /\ tryPatchExport(originalIfcText.s, CurrentPatches) = JsNull
           /\ exportOut.ret.mode = "rewrite"

\* C4 witness: a patch-first export of two edits, one of them from absent to a
\* value, that was produced by rewrite mode
C4_Witness ==
    /\ Exported /\ ~exportOut.call.forceRewrite /\ exportOut.ret.mode = "rewrite"
    /\ HasAbsentToValuePatch
    /\ \E patch \in PatchSet : patch.oldValue /= <<"$">>

\* C6: an export called while no original text is stored throws, returns no
\* blob and leaves the model store as it was.
C6_NoTextThrows ==
    [][(exportOut' /= NoCall /\ originalIfcText = JsNull)
          => /\ exportOut'.ret.status = "error"
             /\ exportOut'.ret.blob = NoBlob
             /\ UNCHANGED storeVars]_vars

\* C6 witness: an export was called before any file was loaded
C6_Witness ==
    Exported /\ originalIfcText = JsNull /\ exportOut.ret.status = "error"

\* the line the export locates for a patch in the original text, <<>> if none
LocatedLine(patch) ==
    LET lineStart == IndexOf(originalIfcText.s, IdStr(patch.expressID) \o <<"=">>)
        lineEnd == IndexOfFrom(originalIfcText.s, <<";">>, lineStart)
    IN  IF lineStart = -1 \/ lineEnd = -1 THEN <<>>
        ELSE Substring(originalIfcText.s, lineStart, lineEnd + 1)

RECURSIVE FrameMatch(_, _, _)
\* out agrees with the segments outside the nominal values of the properties in free
FrameMatch(segs, free, out) ==
    IF segs = <<>> THEN out = <<>>
    ELSE IF Head(segs).id \in free
         THEN \E k \in 0..Len(out) : FrameMatch(Tail(segs), free, SubstringFrom(out, k))
    ELSE /\ Len(out) >= Len(Head(segs).s)
         /\ Substring(out, 0, Len(Head(segs).s)) = Head(segs).s
         /\ FrameMatch(Tail(segs), free, SubstringFrom(out, Len(Head(segs).s)))

\* C2 (as claimed): a patch-first export whose patches all have their old
\* value inside the located record succeeds in patch mode, and its output
\* differs from the original text only inside the nominal values patched.
C2_PatchTouchesOnlyValue ==
    (/\ Exported /\ exportOut.ret.status = "ok" /\ ~exportOut.call.forceRewrite
     /\ PatchSet /= {}
     /\ \A patch \in PatchSet :
            patch.oldValue /= <<"$">> /\ IndexOf(LocatedLine(patch), patch.oldValue) /= -1)
        => /\ exportOut.ret.mode = "patch"
           /\ FrameMatch(FileSegments(ifcFile), {patch.expressID : patch \in PatchSet},
                         exportOut.ret.blob.s)

\* C3 (as claimed): the HEADER section of a rewrite-mode export equals the
\* HEADER section of the original text.
C3_HeaderPreserved ==
    (Exported /\ exportOut.ret.mode = "rewrite" /\ extractHeaderSection(originalIfcText.s) /= <<>>)
        => extractHeaderSection(exportOut.ret.blob.s) = extractHeaderSection(originalIfcText.s)

\* the record of property #id of file f with the nominal value rewritten to
\* the formatted value v, as rewrite mode is specified to rebuild it
RewrittenRecord(f, id, v) ==
    LET parts == RecordParts(id, IF id = 1 THEN Prop1Name ELSE Prop2Name, JsNull,
                             IF id = 1 THEN f.shape1 ELSE f.shape2)
        wrapped == IF v = <<"$">> THEN v
                   ELSE IF Head(v) = "." THEN <<"IFCBOOLEAN", "(">> \o v \o <<")">>
                   ELSE IF Head(v) = "'" THEN <<"IFCLABEL", "(">> \o v \o <<")">>
                   ELSE <<"IFCREAL", "(">> \o v \o <<")">>
    IN  parts[1] \o wrapped \o parts[3]

\* whether rewrite mode can find the record "#id=...;" of a patch in file f
Locatable(f, id) ==
    /\ (IF id = 1 THEN f.shape1 ELSE f.shape2) = "canon"
    /\ ~(f.layout = "truncated" /\ id = 2)

\* C5 (as claimed): in a rewrite-mode export with a patch whose record cannot
\* be located, that record stays as it was and every other patch is applied.
C5_OtherPatchesApplied ==
    (/\ Exported /\ exportOut.ret.mode = "rewrite"
     /\ ifcFile.layout \in {"plain", "noheader", "truncated"}
     /\ \E patch \in PatchSet : ~Locatable(ifcFile, patch.expressID))
        => /\ FrameMatch(FileSegments(ifcFile),
                         {patch.expressID : patch \in {q \in PatchSet : Locatable(ifcFile, q.expressID)}},
                         exportOut.ret.blob.s)
           /\ \A patch \in PatchSet :
                Locatable(ifcFile, patch.expressID)
                    => IndexOf(exportOut.ret.blob.s,
                               RewrittenRecord(ifcFile, patch.expressID, patch.newValue)) /= -1

(***************************************************************************)
(* The value formatter on its own: formatIfcValue applied to every value   *)
(* of a bounded set.                                                       *)
(***************************************************************************)
MaxStrLen == 3

MaxInt == 12

StrAlphabet == {"i", "t", "'"}

RECURSIVE StringsUpTo(_)
StringsUpTo(n) ==
    IF n = 0 THEN {<<>>}
    ELSE StringsUpTo(n - 1)
         \cup {Append(w, c) : w \in {v \in StringsUpTo(n - 1) : Len(v) = n - 1}, c \in StrAlphabet}

\* 3.14, 0.5, -2.5, 1.0000001, 0.0000003 and 41.9999996 in units of 10^-7
FractionalNumbers == {31400000, 5000000, -25000000, 10000001, 3, 419999996}

FormatInputs ==
    {JsNull, JsUndefined, JsBool(TRUE), JsBool(FALSE)}
    \cup {JsInt(n) : n \in (-MaxInt)..MaxInt} \cup {JsInt(42)}
    \cup {JsNum(k) : k \in FractionalNumbers}
    \cup {JsStr(w) : w \in StringsUpTo(MaxStrLen)}

FormatValue ==
    /\ fmtOut = NoCall
    /\ fmtOut' = [call |-> "formatIfcValue", ret |-> formatIfcValue(fmtIn)]
    /\ UNCHANGED <<fmtIn, exportVars, validationVars, checkVars, restVars>>

FormatInit ==
    /\ fmtIn \in FormatInputs
    /\ fmtOut = NoCall
    /\ ifcFile = NoFile
    /\ originalIfcText = JsNull
    /\ elements = <<>>
    /\ isLoading = FALSE
    /\ exportOut = NoCall
    /\ ValidationIdle
    /\ CheckIdle
    /\ RestIdle

FormatNext == FormatValue

SpecFormat == FormatInit /\ [][FormatNext]_vars

\* the number of quote symbols in s
RECURSIVE CountQuotes(_)
CountQuotes(s) == IF s = <<>> THEN 0 ELSE (IF Head(s) = "'" THEN 1 ELSE 0) + CountQuotes(Tail(s))

RECURSIVE Undouble(_)
\* reading of a STEP string body: each pair of quotes stands for one quote; a
\* single quote inside the body is not a body, written <<"?">>
Undouble(s) ==
    IF s = <<>> THEN <<>>
    ELSE IF Head(s) /= "'" THEN <<Head(s)>> \o Undouble(Tail(s))
    ELSE IF Len(s) >= 2 /\ s[2] = "'" THEN <<"'">> \o Undouble(SubSeq(s, 3, Len(s)))
    ELSE <<"?">>

RECURSIVE DigitsValue(_)
\* the natural number a digit string denotes, -1 if s is not a digit string
DigitsValue(s) ==
    IF s = <<>> THEN -1
    ELSE LET isDigit == \E i \in 1..10 : Digit[i] = s[Len(s)]
             d == CHOOSE i \in 0..9 : Digit[i + 1] = s[Len(s)]
             rest == IF Len(s) = 1 THEN 0 ELSE DigitsValue(SubSeq(s, 1, Len(s) - 1))
         IN  IF ~isDigit \/ rest = -1 THEN -1 ELSE 10 * rest + d

\* the reference mapping of the value formatter for v, applied to a result out
MatchesReference(v, out) ==
    CASE v.t \in {"null", "undefined"} -> out = <<"$">>
      [] v.t = "boolean" -> out = (IF v.b THEN <<".", "T", ".">> ELSE <<".", "F", ".">>)
      [] v.t = "number" /\ v.k % NumScale = 0 ->
            LET n == v.k \div NumScale
            IN  IF n < 0 THEN Head(out) = "-" /\ DigitsValue(Tail(out)) = -n
                ELSE DigitsValue(out) = n
      [] v.t = "number" /\ v.k % NumScale /= 0 -> TRUE
      [] v.t = "string" ->
            LET body == SubSeq(out, 2, Len(out) - 1)
            IN  /\ Len(out) >= 2 /\ Head(out) = "'" /\ out[Len(out)] = "'"
                /\ Undouble(body) = v.s
                /\ Len(body) = Len(v.s) + CountQuotes(v.s)
                /\ CountQuotes(body) % 2 = 0

JsArray(a) == [t |-> "array", a |-> a]

NaN == [t |-> "NaN"]

\* JavaScript truthiness of the values the rules carry
Truthy(v) ==
    CASE v.t \in {"null", "undefined", "NaN"} -> FALSE
      [] v.t = "string" -> v.s /= <<>>
      [] v.t = "boolean" -> v.b
      [] v.t = "number" -> v.k /= 0
      [] OTHER -> TRUE

\* s without its leading and trailing white space
TrimWhitespace(s) ==
    LET a == RunLength(s, Whitespace)
        rest == SubstringFrom(s, a)
        b == RunLength([i \in 1..Len(rest) |-> rest[Len(rest) + 1 - i]], Whitespace)
    IN  SubSeq(rest, 1, Len(rest) - b)

\* the value of the fraction digits ds in units of 10^-7 (further digits dropped)
FractionValue(ds) ==
    LET d7 == SubSeq(ds \o <<"0", "0", "0", "0", "0", "0", "0">>, 1, 7)
    IN  DigitsValueOf(d7)

\* StringToNumber for the decimal literals: optional sign, digits, optional
\* fraction; the empty string is 0, anything else is NaN
StringToNumber(str) ==
    LET s == TrimWhitespace(str)
        neg == s /= <<>> /\ Head(s) = "-"
        body == IF s /= <<>> /\ Head(s) \in {"-", "+"} THEN Tail(s) ELSE s
        a == RunLength(body, DigitSyms)
        frac == SubstringFrom(body, a)
        fracOk == frac = <<>> \/ (Head(frac) = "." /\ RunLength(Tail(frac), DigitSyms) = Len(frac) - 1)
        mag == DigitsValueOf(SubSeq(body, 1, a)) * NumScale
               + (IF Len(frac) >= 2 THEN FractionValue(Tail(frac)) ELSE 0)
    IN  IF s = <<>> THEN JsNum(0)
        ELSE IF a >= 1 /\ fracOk THEN JsNum(IF neg THEN -mag ELSE mag)
        ELSE NaN

\* Number(value)
JsToNumber(v) ==
    CASE v.t = "null" -> JsNum(0)
      [] v.t = "undefined" -> NaN
      [] v.t = "boolean" -> (IF v.b THEN JsInt(1) ELSE JsInt(0))
      [] v.t = "number" -> v
      [] v.t = "string" -> StringToNumber(v.s)

\* String(n) for a number: the integer part, and the fraction digits without
\* trailing zeros if there are any
NumberToString(k) ==
    IF NumberIsInteger(k) THEN IntToString(k)
    ELSE (IF k < 0 THEN <<"-">> ELSE <<>>) \o Digits(Abs(k) \div NumScale) \o <<".">>
         \o TrimTrailingZeros(PadDigits(Abs(k) % NumScale, 7))

\* String(value)
JsToString(v) ==
    CASE v.t = "null" -> <<"n", "u", "l", "l">>
      [] v.t = "undefined" -> <<"u", "n", "d", "e", "f", "i", "n", "e", "d">>
      [] v.t = "boolean" -> (IF v.b THEN <<"t", "r", "u", "e">> ELSE <<"f", "a", "l", "s", "e">>)
      [] v.t = "number" -> NumberToString(v.k)
      [] v.t = "string" -> v.s

\* value ?? fallback
Coalesce(v, fallback) == IF v.t \in {"null", "undefined"} THEN fallback ELSE v

(***************************************************************************)
(* Regular expressions of the rules.  A pattern is a sequence of symbols:  *)
(* "^" and "$" anchors, "+" for one-or-more, a character, or a symbol that *)
(* stands for a character class.  "(" and "[" open a group or class that   *)
(* no pattern of the model closes, which new RegExp rejects.               *)
(***************************************************************************)
\* the characters of element names and values that the class of the naming
\* convention [a-zA-Z0-9_\-:. ] accepts
NameClassChars ==
    {"W", "D", "H", "R", "a", "b", "x", "_", "-", ":", ".", " "} \cup DigitSyms

NameClassSym == "[a-zA-Z0-9_\\-:. ]"

\* the pattern of rule sg-naming-001
NamingPattern == <<"^", NameClassSym, "+", "$">>

AtomChars(sym) == IF sym = NameClassSym THEN NameClassChars ELSE {sym}

\* no pattern is rejected
RegExpThrowsNever(pattern) == FALSE

\* new RegExp(pattern) throws a SyntaxError
RegExpThrows(pattern) ==
    \/ \E i \in 1..Len(pattern) : pattern[i] \in {"(", "["}
    \/ \E i \in 1..Len(pattern) :
          pattern[i] = "+" /\ (i = 1 \/ pattern[i - 1] \in {"^", "+"})

RECURSIVE MatchAtoms(_, _)
\* the atoms of pattern match a prefix of s (all of s when the pattern ends in "$")
MatchAtoms(pattern, s) ==
    IF pattern = <<>> THEN TRUE
    ELSE IF pattern = <<"$">> THEN s = <<>>
    ELSE IF Len(pattern) >= 2 /\ pattern[2] = "+"
         THEN \E k \in 1..RunLength(s, AtomChars(pattern[1])) :
                 MatchAtoms(SubSeq(pattern, 3, Len(pattern)), SubstringFrom(s, k))
    ELSE /\ s /= <<>> /\ Head(s) \in AtomChars(pattern[1])
         /\ MatchAtoms(Tail(pattern), Tail(s))

\* new RegExp(pattern).test(s), for a pattern that compiles
RegExpTest(pattern, s) ==
    IF pattern /= <<>> /\ Head(pattern) = "^" THEN MatchAtoms(Tail(pattern), s)
    ELSE \E i \in 0..Len(s) : MatchAtoms(pattern, SubstringFrom(s, i))

getDefaultSeverity(issueType) ==
    CASE issueType = "MissingValue" -> <<"Warning">>
      [] issueType = "Naming" -> <<"Error">>
      [] OTHER -> <<"Error">>

\* the first element of seq whose name is name, as a sequence of zero or one
FindByName(seq, name) ==
    LET hits == {i \in 1..Len(seq) : seq[i].name = name}
    IN  IF hits = {} THEN <<>> ELSE <<seq[CHOOSE i \in hits : \A j \in hits : i <= j]>>

\* the issue object the checks push (the fields that identify and grade it)
MakeIssue(element, rule, req, issueType) ==
    [id |-> Digits(element.expressID) \o <<"-">> \o rule.id \o <<"-">> \o req.propertyName,
     expressID |-> element.expressID,
     ifcClass |-> element.ifcClass,
     name |-> element.name,
     ruleId |-> rule.id,
     issueType |-> issueType,
     propertyPath |-> req.psetName \o <<".">> \o req.propertyName,
     severity |-> IF Truthy(req.severity) THEN req.severity.s ELSE getDefaultSeverity(issueType)]

\* Array.prototype.includes
Includes(list, v) == \E i \in 1..Len(list) : list[i] = v

\* the issue type of the failed check of a requirement on a found value, "" if it passes
CheckValue(req, value) ==
    CASE req.checkType = "exists" -> ""
      [] req.checkType = "notEmpty" ->
            IF value.t \in {"null", "undefined"} \/ value = JsStr(<<>>) THEN "MissingValue" ELSE ""
      [] req.checkType = "equals" ->
            IF value /= req.expected THEN "WrongValue" ELSE ""
      [] req.checkType = "inList" ->
            LET list == IF req.expected.t = "array" THEN req.expected.a ELSE <<req.expected>>
            IN  IF ~Includes(list, value) THEN "WrongValue" ELSE ""
      [] req.checkType = "range" ->
            LET num == JsToNumber(value)
            IN  IF \/ num.t = "NaN"
                   \/ (req.min.t /= "undefined" /\ num.k < req.min.k)
                   \/ (req.max.t /= "undefined" /\ num.k > req.max.k)
                THEN "WrongValue" ELSE ""
      [] req.checkType = "regex" ->
            IF Truthy(req.pattern) /\ ~RegExpThrows(req.pattern.s)
               /\ ~RegExpTest(req.pattern.s, JsToString(Coalesce(value, JsStr(<<>>))))
            THEN "Naming" ELSE ""
      [] req.checkType = "boolean" ->
            IF /\ value.t /= "boolean"
               /\ value /= JsStr(<<"t", "r", "u", "e">>) /\ value /= JsStr(<<"f", "a", "l", "s", "e">>)
               /\ value /= JsStr(<<".", "T", ".">>) /\ value /= JsStr(<<".", "F", ".">>)
            THEN "WrongValue" ELSE ""

\* a missing property set is reported for every check type
PsetMissingIssueAlways(checkType) == TRUE

\* the check types for which a missing property set is reported
PsetMissingIssue(checkType) == checkType \in {"exists", "notEmpty"}

\* the issue pushed for the outcome of the switch on req.checkType
FailedCheckIssue(element, rule, req, failed) ==
    IF failed /= "" THEN <<MakeIssue(element, rule, req, failed)>> ELSE <<>>

\* the loop body once the property set is found; prop is the result of the
\* search for the property
CheckProperty(element, rule, req, prop) ==
    IF prop = <<>> THEN <<MakeIssue(element, rule, req, "MissingParam")>>
    ELSE FailedCheckIssue(element, rule, req, CheckValue(req, prop[1].value))

\* the loop body; pset is the result of the search for the property set
CheckPset(element, rule, req, pset) ==
    IF pset = <<>> THEN
        (IF PsetMissingIssue(req.checkType) THEN <<MakeIssue(element, rule, req, "MissingParam")>>
         ELSE <<>>)
    ELSE CheckProperty(element, rule, req, FindByName(pset[1].properties, req.propertyName))

\* the body of the loop over rule.requirements: the issues of one requirement
CheckRequirement(element, rule, req) ==
    CheckPset(element, rule, req, FindByName(element.psets, req.psetName))

\* the rule applies whatever its allow-lists say
RuleAppliesAlways(element, rule) == TRUE

\* the applicability gate at the head of checkElement
RuleApplies(element, rule) ==
    LET classes == rule.applicability.ifcClasses
        disciplines == rule.applicability.disciplines
    IN  /\ ~(classes.t = "array" /\ Len(classes.a) > 0 /\ ~Includes(classes.a, element.ifcClass))
        /\ ~(disciplines.t = "array" /\ Len(disciplines.a) > 0
             /\ ~Includes(disciplines.a, element.discipline))

checkElement(element, rule) ==
    IF ~RuleApplies(element, rule) THEN <<>>
    ELSE FlatMap([i \in 1..Len(rule.requirements) |->
                    CheckRequirement(element, rule, rule.requirements[i])])

(***************************************************************************)
(* checkElement on its own: applied to every element and rule of a bounded *)
(* set.                                                                    *)
(***************************************************************************)
AttributesPset == <<"__attributes__">>

Requirement(psetName, propertyName, checkType, severity) ==
    [psetName |-> psetName, propertyName |-> propertyName, checkType |-> checkType,
     expected |-> CASE checkType = "equals" -> JsStr(<<"A">>)
                    [] checkType = "inList" -> JsArray(<<JsStr(<<"A">>), JsInt(1)>>)
                    [] OTHER -> JsUndefined,
     min |-> IF checkType = "range" THEN JsInt(1) ELSE JsUndefined,
     max |-> IF checkType = "range" THEN JsInt(5) ELSE JsUndefined,
     pattern |-> IF checkType = "regex" THEN JsStr(NamingPattern) ELSE JsUndefined,
     severity |-> severity]

CheckTypes == {"exists", "notEmpty", "equals", "inList", "range", "regex", "boolean"}

\* range requirements on property #1 with the bounds 0 and 1, either optional
RangeRequirements ==
    {[Requirement(PsetWallCommon, Prop1Name, "range", JsUndefined) EXCEPT !.min = mn, !.max = mx] :
        mn \in {JsUndefined, JsInt(0)}, mx \in {JsUndefined, JsInt(1)}}

\* patterns that new RegExp rejects: an unclosed group, an unclosed class,
\* a quantifier with nothing to repeat
InvalidPatterns == {<<"(">>, <<"[", "a">>, <<"+", "a">>}

\* regex requirements on property #1 with a pattern that does not compile
InvalidPatternRequirements ==
    {[Requirement(PsetWallCommon, Prop1Name, "regex", JsUndefined) EXCEPT !.pattern = JsStr(pat)] :
        pat \in InvalidPatterns}

\* the first requirement of a rule
LeadRequirements ==
    {Requirement(ps, Prop1Name, ct, sev) :
        ps \in {PsetWallCommon, AttributesPset}, ct \in CheckTypes,
        sev \in {JsUndefined, JsStr(<<"Warning">>)}}
    \cup RangeRequirements \cup InvalidPatternRequirements

\* the requirements that follow the first, in this order
TrailRequirements ==
    <<Requirement(PsetCustom, Prop3Name, "regex", JsUndefined),
      Requirement(PsetCustom, Prop3Name, "notEmpty", JsUndefined),
      Requirement(AttributesPset, <<"Name">>, "equals", JsStr(<<"Info">>)),
      Requirement(PsetWallCommon, Prop2Name, "boolean", JsUndefined)>>

MaxReqs == 2

RequirementLists ==
    {<<>>} \cup {<<lead>> \o SubSeq(TrailRequirements, 1, k) :
                    lead \in LeadRequirements,
                    k \in 0..Min(MaxReqs - 1, Len(TrailRequirements))}

ClassLists ==
    {JsUndefined, JsArray(<<>>), JsArray(<<<<"IfcWall">>, <<"IfcDoor">>>>), JsArray(<<<<"IfcBeam">>>>)}

DisciplineLists ==
    {JsUndefined, JsArray(<<>>), JsArray(<<<<"Architecture">>>>),
     JsArray(<<<<"Structure">>, <<"MEP">>>>)}

CheckRules ==
    {[id |-> <<"r", "1">>, applicability |-> [ifcClasses |-> cl, disciplines |-> dl],
      requirements |-> reqs] :
        cl \in ClassLists, dl \in DisciplineLists, reqs \in RequirementLists}

\* the values of the checked property
CheckedValues ==
    {JsNull, JsStr(<<>>), JsStr(<<"A">>), JsInt(1), JsBool(TRUE), JsStr(<<"W", "#">>),
     JsInt(-1), JsNum(5000000), JsInt(5), JsBool(FALSE), JsStr(<<"0", ".", "5">>)}

CheckPsets ==
    LET Prop(n, v) == [name |-> n, value |-> v]
        custom == [name |-> PsetCustom, properties |-> <<Prop(Prop3Name, JsStr(<<"W", "#">>))>>]
        common == {[name |-> PsetWallCommon, properties |-> <<Prop(Prop1Name, v)>>] :
                      v \in CheckedValues}
                  \cup {[name |-> PsetWallCommon, properties |-> <<Prop(Prop2Name, Prop2Original)>>]}
    IN  {<<>>, <<custom>>} \cup {<<c>> : c \in common} \cup {<<custom, c>> : c \in common}

CheckElements ==
    {[expressID |-> FirstElementID, name |-> <<"W", "1">>, ifcClass |-> c,
      discipline |-> getDiscipline(c), psets |-> ps] :
        c \in {<<"IfcWall">>, <<"IfcDoor">>, <<"IfcBeam">>, <<"IfcSpace">>}, ps \in CheckPsets}

CheckElement ==
    /\ ceOut = NoCall
    /\ ceOut' = [call |-> "checkElement", ret |-> checkElement(ceIn.element, ceIn.rule)]
    /\ UNCHANGED <<ceIn, exportVars, formatVars, validationVars, restVars>>

CheckInit ==
    /\ ceIn \in [element : CheckElements, rule : CheckRules]
    /\ ceOut = NoCall
    /\ ifcFile = NoFile
    /\ originalIfcText = JsNull
    /\ elements = <<>>
    /\ isLoading = FALSE
    /\ exportOut = NoCall
    /\ fmtIn = JsNull
    /\ fmtOut = NoCall
    /\ ValidationIdle
    /\ RestIdle

CheckNext == CheckElement

SpecCheck == CheckInit /\ [][CheckNext]_vars

Checked == ceOut /= NoCall

\* the allow-list is declared and does not hold v
DeclaredWithout(list, v) == list.t = "array" /\ \A i \in 1..Len(list.a) : list.a[i] /= v

\* some allow-list of the rule of ceIn is declared and does not hold the element's value
ExcludedByDeclaredList ==
    \/ DeclaredWithout(ceIn.rule.applicability.ifcClasses, ceIn.element.ifcClass)
    \/ DeclaredWithout(ceIn.rule.applicability.disciplines, ceIn.element.discipline)

\* as ExcludedByDeclaredList, for an allow-list with at least one entry
ExcludedByNonEmptyList ==
    \/ /\ DeclaredWithout(ceIn.rule.applicability.ifcClasses, ceIn.element.ifcClass)
       /\ ceIn.rule.applicability.ifcClasses.a /= <<>>
    \/ /\ DeclaredWithout(ceIn.rule.applicability.disciplines, ceIn.element.discipline)
       /\ ceIn.rule.applicability.disciplines.a /= <<>>

\* C8 as stated: checkElement returns no issue whenever the rule declares a
\* class allow-list without the element's class or a discipline allow-list
\* without the element's discipline.
C8_DeclaredListExcludes == (Checked /\ ExcludedByDeclaredList) => ceOut.ret = <<>>

\* C8: checkElement returns no issue whenever the rule has a non-empty class
\* allow-list without the element's class or a non-empty discipline
\* allow-list without the element's discipline, whatever the requirements
\* and the property sets are.
C8_NonEmptyListExcludes == (Checked /\ ExcludedByNonEmptyList) => ceOut.ret = <<>>

\* an excluded element for which a requirement of the rule is not met
C8_Witness ==
    /\ Checked /\ ExcludedByNonEmptyList
    /\ \E i \in 1..Len(ceIn.rule.requirements) :
          CheckRequirement(ceIn.element, ceIn.rule, ceIn.rule.requirements[i]) /= <<>>
    /\ ceIn.element.psets /= <<>>

\* the element of ceIn has no property set of this name
PsetAbsent(psetName) ==
    \A i \in 1..Len(ceIn.element.psets) : ceIn.element.psets[i].name /= psetName

\* the property set an issue is about: its property path up to the dot
IssuePset(issue) == Substring(issue.propertyPath, 0, IndexOf(issue.propertyPath, <<".">>))

\* the requirements of the rule of ceIn on absent property sets that ask for
\* existence or a non-empty value
ReportedAbsent ==
    LET Reported(req) == PsetAbsent(req.psetName) /\ req.checkType \in {"exists", "notEmpty"}
    IN  SelectSeq(ceIn.rule.requirements, Reported)

\* the issues returned for ceIn that are about absent property sets
AbsentIssues ==
    LET About(issue) == PsetAbsent(IssuePset(issue))
    IN  SelectSeq(ceOut.ret, About)

\* C9: for an applicable element, the issues about absent property sets are,
\* in order, one MissingParam issue for each exists or notEmpty requirement
\* on an absent property set, of severity Error unless the requirement
\* overrides it; the other check types on absent property sets give none.
C9_AbsentPsetIssues ==
    (Checked /\ ~ExcludedByNonEmptyList) =>
        /\ Len(AbsentIssues) = Len(ReportedAbsent)
        /\ \A i \in 1..Len(AbsentIssues) :
              /\ AbsentIssues[i].issueType = "MissingParam"
              /\ AbsentIssues[i].propertyPath
                    = ReportedAbsent[i].psetName \o <<".">> \o ReportedAbsent[i].propertyName
              /\ AbsentIssues[i].severity
                    = IF ReportedAbsent[i].severity.t = "string" THEN ReportedAbsent[i].severity.s
                      ELSE <<"Error">>

\* an applicable element, an exists or notEmpty requirement and a
\* requirement of another check type, both on absent property sets
C9_Witness ==
    /\ Checked /\ ~ExcludedByNonEmptyList
    /\ Len(ReportedAbsent) = 1 /\ Len(ceOut.ret) = 1
    /\ \E i \in 1..Len(ceIn.rule.requirements) :
          /\ PsetAbsent(ceIn.rule.requirements[i].psetName)
          /\ ceIn.rule.requirements[i].checkType = "regex"

(***************************************************************************)
(* IDS import: idsToRulePack                                               *)
(***************************************************************************)
\* value || fallback for a string or undefined value: the symbols of the result
OrElse(v, fallback) == IF Truthy(v) THEN v.s ELSE fallback

\* String.prototype.toLowerCase on the letters of the model
ToLowerCase(s) ==
    [i \in 1..Len(s) |-> CASE s[i] = "A" -> "a" [] s[i] = "B" -> "b" [] OTHER -> s[i]]

RECURSIVE ReplaceWhitespaceRuns(_)
\* s.replace(/\s+/g, '-'): every maximal run of white space becomes one hyphen
ReplaceWhitespaceRuns(s) ==
    IF s = <<>> THEN <<>>
    ELSE IF Head(s) \in Whitespace
         THEN <<"-">> \o ReplaceWhitespaceRuns(SubstringFrom(s, RunLength(s, Whitespace)))
    ELSE <<Head(s)>> \o ReplaceWhitespaceRuns(Tail(s))

\* the entity names of the applicability facets, in order
IdsClasses(spec) ==
    LET Named(f) == f.type = "entity" /\ Truthy(f.entityName)
        named == SelectSeq(spec.applicability, Named)
    IN  [i \in 1..Len(named) |-> named[i].entityName.s]

\* the check type of a property facet when the pattern is looked at first
PropertyCheckTypePatternFirst(facet, cardinality) ==
    IF cardinality = "required"
    THEN (IF Truthy(facet.pattern) THEN "regex"
          ELSE IF Truthy(facet.value) THEN "equals" ELSE "notEmpty")
    ELSE "exists"

\* the check type of a property facet
PropertyCheckType(facet, cardinality) ==
    IF cardinality = "required"
    THEN (IF Truthy(facet.value) THEN "equals"
          ELSE IF Truthy(facet.pattern) THEN "regex" ELSE "notEmpty")
    ELSE "exists"

\* the requirement built for a property facet
PropertyRequirement(req) ==
    LET ct == PropertyCheckType(req.facet, req.cardinality)
    IN  [psetName |-> OrElse(req.facet.psetName, <<>>),
         propertyName |-> OrElse(req.facet.propertyName, <<>>),
         checkType |-> ct,
         expected |-> IF ct = "equals" THEN req.facet.value ELSE JsUndefined,
         min |-> JsUndefined, max |-> JsUndefined,
         pattern |-> IF ct = "regex" THEN req.facet.pattern ELSE JsUndefined,
         severity |-> JsUndefined]

\* the requirement built for an attribute facet with a name
AttributeRequirement(req) ==
    [psetName |-> AttributesPset,
     propertyName |-> req.facet.attributeName.s,
     checkType |-> IF Truthy(req.facet.pattern) THEN "regex"
                   ELSE IF Truthy(req.facet.value) THEN "equals" ELSE "notEmpty",
     expected |-> req.facet.value,
     min |-> JsUndefined, max |-> JsUndefined,
     pattern |-> req.facet.pattern,
     severity |-> JsUndefined]

\* the requirements pushed for one requirement of a specification
IdsRequirement(req) ==
    IF req.facet.type = "property" THEN <<PropertyRequirement(req)>>
    ELSE IF req.facet.type = "attribute" /\ Truthy(req.facet.attributeName)
         THEN <<AttributeRequirement(req)>>
    ELSE <<>>

IdsRequirements(spec) ==
    FlatMap([i \in 1..Len(spec.requirements) |-> IdsRequirement(spec.requirements[i])])

\* the rule id without the running count of rules
IdsRuleIdNoCount(spec, count) == <<"ids-">> \o ToLowerCase(ReplaceWhitespaceRuns(spec.name))

\* the id of the rule of spec when count rules have been pushed before it
IdsRuleId(spec, count) ==
    <<"ids-">> \o ToLowerCase(ReplaceWhitespaceRuns(spec.name)) \o <<"-">> \o Digits(count)

\* the rule pushed for spec, if any, given its requirements
IdsRule(spec, count, requirements) ==
    IF Len(requirements) > 0
    THEN <<[id |-> IdsRuleId(spec, count), name |-> spec.name,
            applicability |-> [ifcClasses |-> IF Len(IdsClasses(spec)) > 0
                                              THEN JsArray(IdsClasses(spec)) ELSE JsUndefined,
                               disciplines |-> JsUndefined],
            requirements |-> requirements]>>
    ELSE <<>>

RECURSIVE IdsRules(_, _)
\* the loop over the specifications; rules holds the rules pushed so far
IdsRules(specs, rules) ==
    IF specs = <<>> THEN rules
    ELSE IdsRules(Tail(specs),
                  rules \o IdsRule(Head(specs), Len(rules), IdsRequirements(Head(specs))))

\* the number of facets reported as unsupported
UnsupportedFacets(specs) ==
    LET InApplicability(f) == f.type \in {"classification", "material", "partOf"}
        InRequirements(r) == r.facet.type \notin {"property", "attribute"}
        Count(spec) == <<Len(SelectSeq(spec.applicability, InApplicability))
                         + Len(SelectSeq(spec.requirements, InRequirements))>>
    IN  Len(FlatMap([i \in 1..Len(specs) |->
                       [j \in 1..Count(specs[i])[1] |-> j]]))

idsToRulePack(specs, fileName) ==
    [name |-> <<"IDS: ">> \o fileName, version |-> <<"1.0">>,
     unsupported |-> UnsupportedFacets(specs),
     rules |-> IdsRules(specs, <<>>)]

(***************************************************************************)
(* Validation runs: ValidationService and the validation worker            *)
(***************************************************************************)
\* the rules sg-wall-001 and sg-naming-001 of the built-in pack
IFCSG_RULE_PACK_V1 ==
    [name |-> <<"IFC+SG Default">>, version |-> <<"1.0.0">>,
     rules |-> <<
        [id |-> <<"sg", "-", "wall", "-", "001">>,
         applicability |-> [ifcClasses |-> JsArray(<<<<"IfcWall">>, <<"IfcWallStandardCase">>>>),
                            disciplines |-> JsUndefined],
         requirements |-> <<[psetName |-> PsetWallCommon, propertyName |-> <<"FireRating">>,
                             checkType |-> "notEmpty", expected |-> JsUndefined,
                             min |-> JsUndefined, max |-> JsUndefined,
                             pattern |-> JsUndefined, severity |-> JsUndefined]>>],
        [id |-> <<"sg", "-", "naming", "-", "001">>,
         applicability |-> [ifcClasses |-> JsArray(<<<<"IfcWall">>, <<"IfcWallStandardCase">>,
                                                     <<"IfcDoor">>, <<"IfcWindow">>, <<"IfcSlab">>,
                                                     <<"IfcBeam">>, <<"IfcColumn">>, <<"IfcRoof">>,
                                                     <<"IfcStair">>>>),
                            disciplines |-> JsUndefined],
         requirements |-> <<[psetName |-> AttributesPset, propertyName |-> <<"Name">>,
                             checkType |-> "regex", expected |-> JsUndefined,
                             min |-> JsUndefined, max |-> JsUndefined,
                             pattern |-> JsStr(NamingPattern),
                             severity |-> JsStr(<<"Error">>)]>>]>>]

\* a facet of an IDS document
Facet(type, entityName, attributeName, psetName, propertyName, value, pattern) ==
    [type |-> type, entityName |-> entityName, attributeName |-> attributeName,
     psetName |-> psetName, propertyName |-> propertyName, value |-> value,
     pattern |-> pattern]

EntityFacet(name) ==
    Facet("entity", JsStr(name), JsUndefined, JsUndefined, JsUndefined, JsUndefined, JsUndefined)

PropertyFacet(psetName, propertyName, value, pattern) ==
    Facet("property", JsUndefined, JsUndefined, psetName, propertyName, value, pattern)

AttributeFacet(attributeName, value, pattern) ==
    Facet("attribute", JsUndefined, attributeName, JsUndefined, JsUndefined, value, pattern)

\* two specifications for walls, named "a" and "a 0", that require the
\* properties "1-p" and "p" of Pset_WallCommon
HyphenSpecs ==
    <<[name |-> <<"a">>, applicability |-> <<EntityFacet(<<"IfcWall">>)>>,
       requirements |-> <<[facet |-> PropertyFacet(JsStr(PsetWallCommon), JsStr(<<"1", "-", "p">>),
                                                   JsUndefined, JsUndefined),
                           cardinality |-> "required"]>>],
      [name |-> <<"a", " ", "0">>, applicability |-> <<EntityFacet(<<"IfcWall">>)>>,
       requirements |-> <<[facet |-> PropertyFacet(JsStr(PsetWallCommon), JsStr(<<"p">>),
                                                   JsUndefined, JsUndefined),
                           cardinality |-> "required"]>>]>>

\* a specification for walls that requires the attribute Name to match the
\* naming pattern, and one for doors that requires a value of property #1
AttributeSpecs ==
    <<[name |-> <<"n">>, applicability |-> <<EntityFacet(<<"IfcWall">>)>>,
       requirements |-> <<[facet |-> AttributeFacet(JsStr(<<"Name">>), JsUndefined,
                                                    JsStr(NamingPattern)),
                           cardinality |-> "required"]>>],
      [name |-> <<"d">>, applicability |-> <<EntityFacet(<<"IfcDoor">>)>>,
       requirements |-> <<[facet |-> PropertyFacet(JsStr(PsetWallCommon), JsStr(Prop1Name),
                                                   JsUndefined, JsUndefined),
                           cardinality |-> "required"]>>]>>

\* the pack imported from an IDS file with these specifications
IdsImportPack == idsToRulePack(HyphenSpecs \o AttributeSpecs, <<"f.ids">>)

RulePacks == {IFCSG_RULE_PACK_V1, IdsImportPack}

\* the element as validate() hands it to the worker
ValidateElement(el) ==
    [expressID |-> el.expressID, name |-> el.name, ifcClass |-> el.ifcClass,
     discipline |-> el.discipline,
     psets |-> [q \in 1..Len(el.psets) |->
                  [name |-> el.psets[q].name,
                   properties |-> [i \in 1..Len(el.psets[q].properties) |->
                                     [name |-> el.psets[q].properties[i].name,
                                      value |-> el.psets[q].properties[i].value]]]]]

\* the rule as validate() hands it to the worker
ValidateRule(r) ==
    [id |-> r.id,
     applicability |-> [ifcClasses |-> r.applicability.ifcClasses,
                        disciplines |-> r.applicability.disciplines],
     requirements |-> [i \in 1..Len(r.requirements) |->
                         [psetName |-> r.requirements[i].psetName,
                          propertyName |-> r.requirements[i].propertyName,
                          checkType |-> r.requirements[i].checkType,
                          expected |-> r.requirements[i].expected,
                          min |-> r.requirements[i].min,
                          max |-> r.requirements[i].max,
                          pattern |-> r.requirements[i].pattern,
                          severity |-> r.requirements[i].severity]]]

\* the message validate() posts to the worker
ValidateRequest(els, rulePack) ==
    [type |-> "validate",
     elements |-> [i \in 1..Len(els) |-> ValidateElement(els[i])],
     rules |-> [i \in 1..Len(rulePack.rules) |-> ValidateRule(rulePack.rules[i])],
     rulePackName |-> rulePack.name, rulePackVersion |-> rulePack.version]

\* the issues of one element under all rules, in rule order
ElementIssues(element, rules) ==
    FlatMap([j \in 1..Len(rules) |-> checkElement(element, rules[j])])

\* every how many elements the worker reports progress
ProgressEvery == 100

\* Math.round(a / b) for a >= 0 and b > 0
RoundDiv(a, b) == (2 * a + b) \div (2 * b)

\* the progress messages of runValidation, in order
RunProgress(request) ==
    LET total == Len(request.elements)
        marks == [i \in 1..(total \div ProgressEvery) |-> i * ProgressEvery]
    IN  [i \in 1..Len(marks) |->
            [type |-> "progress", percent |-> RoundDiv(marks[i] * 90, total)]]

\* the result message with passed counting only the elements free of errors
ValidateResultPassedByErrors(total, allIssues) ==
    LET IsError(i) == i.severity = <<"Error">>
        IsWarning(i) == i.severity = <<"Warning">>
        errorIssues == SelectSeq(allIssues, IsError)
        elementIssueMap == {errorIssues[i].expressID : i \in 1..Len(errorIssues)}
    IN  [type |-> "result", issues |-> allIssues, totalElements |-> total,
         totalIssues |-> Len(allIssues),
         errors |-> Len(errorIssues),
         warnings |-> Len(SelectSeq(allIssues, IsWarning)),
         passed |-> total - Cardinality(elementIssueMap)]

\* the result message for the issues collected over total elements
ValidateResult(total, allIssues) ==
    LET IsError(i) == i.severity = <<"Error">>
        IsWarning(i) == i.severity = <<"Warning">>
        elementIssueMap == {allIssues[i].expressID : i \in 1..Len(allIssues)}
    IN  [type |-> "result", issues |-> allIssues, totalElements |-> total,
         totalIssues |-> Len(allIssues),
         errors |-> Len(SelectSeq(allIssues, IsError)),
         warnings |-> Len(SelectSeq(allIssues, IsWarning)),
         passed |-> total - Cardinality(elementIssueMap)]

\* the result message of runValidation
runValidation(request) ==
    ValidateResult(Len(request.elements),
                   FlatMap([i \in 1..Len(request.elements) |->
                              ElementIssues(request.elements[i], request.rules)]))

\* the elements of the files of the validation model: none; a wall whose
\* name breaks the naming convention and a pipe segment; a door and a wall
\* whose names keep it
ValidateEntityLists ==
    {<<>>,
     <<[ifcClass |-> <<"IfcWall">>, name |-> <<"W", "#">>],
       [ifcClass |-> <<"IfcPipeSegment">>, name |-> <<"a", "#">>]>>,
     <<[ifcClass |-> <<"IfcDoor">>, name |-> <<"D", " ", "1">>],
       [ifcClass |-> <<"IfcWall">>, name |-> <<"W", "1">>]>>}

MaxValidations == 2

ValidateFiles ==
    [layout : {"plain"}, shape1 : {"canon"}, shape2 : {"canon"}, orig1 : {JsNull},
     entities : ValidateEntityLists]

\* ValidationService.validate(rulePack) up to the hand-over to the worker;
\* it throws, and changes nothing, when no element is loaded
Validate(rulePack) ==
    /\ Len(elements) /= 0
    /\ Len(workers) < MaxValidations
    /\ isValidating' = TRUE
    /\ validationProgress' = 0
    /\ workers' = Append(workers, [request |-> ValidateRequest(elements, rulePack),
                                   pc |-> "posted", posted |-> <<>>, delivered |-> 0,
                                   terminated |-> FALSE, promise |-> "pending"])
    /\ serviceWorker' = Len(workers) + 1
    /\ UNCHANGED <<validationResult, exportVars, formatVars, checkVars, restVars>>

\* a click on Run Validation although a run is under way
HandleRunValidationEnabled(rulePack) == Validate(rulePack)

\* handleRunValidation with the selected pack; the Run Validation button is
\* disabled while isValidating
HandleRunValidation(rulePack) ==
    /\ ~isValidating
    /\ Validate(rulePack)

\* the worker reads the elements of the store when it runs
WorkerValidateLive(w) ==
    /\ workers[w].pc = "posted" /\ ~workers[w].terminated
    /\ workers' = [workers EXCEPT
          ![w].pc = "done",
          ![w].posted = <<[type |-> "progress", percent |-> 5]>>
                        \o RunProgress(workers[w].request)
                        \o <<runValidation([workers[w].request EXCEPT
                                !.elements = [i \in 1..Len(elements) |->
                                                 ValidateElement(elements[i])]])>>]
    /\ UNCHANGED <<validationResult, isValidating, validationProgress, serviceWorker,
                   exportVars, formatVars, checkVars, restVars>>

\* self.onmessage of the validation worker for the request of worker w
WorkerValidate(w) ==
    /\ workers[w].pc = "posted" /\ ~workers[w].terminated
    /\ workers' = [workers EXCEPT ![w].pc = "done",
                                  ![w].posted = <<[type |-> "progress", percent |-> 5]>>
                                                \o RunProgress(workers[w].request)
                                                \o <<runValidation(workers[w].request)>>]
    /\ UNCHANGED <<validationResult, isValidating, validationProgress, serviceWorker,
                   exportVars, formatVars, checkVars, restVars>>

\* the ValidationResult that worker.onmessage stores for a result message
StoredResult(request, msg) ==
    [t |-> "result", rulePackName |-> request.rulePackName,
     rulePackVersion |-> request.rulePackVersion,
     totalElements |-> msg.totalElements, totalIssues |-> msg.totalIssues,
     errors |-> msg.errors, warnings |-> msg.warnings, passed |-> msg.passed,
     issues |-> msg.issues]

\* messages of a terminated worker are still handed to worker.onmessage
OnWorkerMessageAfterTerminate(w) ==
    /\ workers[w].delivered < Len(workers[w].posted)
    /\ LET msg == workers[w].posted[workers[w].delivered + 1]
       IN  IF msg.type = "progress"
           THEN /\ validationProgress' = msg.percent
                /\ workers' = [workers EXCEPT ![w].delivered = @ + 1]
                /\ UNCHANGED <<validationResult, isValidating>>
           ELSE /\ validationResult' = StoredResult(workers[w].request, msg)
                /\ isValidating' = FALSE
                /\ validationProgress' = 100
                /\ workers' = [workers EXCEPT ![w].delivered = @ + 1, ![w].promise = "resolved"]
    /\ UNCHANGED <<serviceWorker, exportVars, formatVars, checkVars, restVars>>

\* worker.onmessage of validate() for the next message of worker w
OnWorkerMessage(w) ==
    /\ ~workers[w].terminated
    /\ workers[w].delivered < Len(workers[w].posted)
    /\ LET msg == workers[w].posted[workers[w].delivered + 1]
       IN  IF msg.type = "progress"
           THEN /\ validationProgress' = msg.percent
                /\ workers' = [workers EXCEPT ![w].delivered = @ + 1]
                /\ UNCHANGED <<validationResult, isValidating>>
           ELSE /\ validationResult' = StoredResult(workers[w].request, msg)
                /\ isValidating' = FALSE
                /\ validationProgress' = 100
                /\ workers' = [workers EXCEPT ![w].delivered = @ + 1, ![w].promise = "resolved"]
    /\ UNCHANGED <<serviceWorker, exportVars, formatVars, checkVars, restVars>>

\* worker.onerror of validate(): the worker script of worker w fails
OnWorkerError(w) ==
    /\ workers[w].pc = "posted" /\ ~workers[w].terminated
    /\ isValidating' = FALSE
    /\ workers' = [workers EXCEPT ![w].pc = "failed", ![w].promise = "rejected"]
    /\ UNCHANGED <<validationResult, validationProgress, serviceWorker,
                   exportVars, formatVars, checkVars, restVars>>

\* ValidationService.terminate()
Terminate ==
    /\ serviceWorker /= 0
    /\ workers' = [workers EXCEPT ![serviceWorker].terminated = TRUE]
    /\ serviceWorker' = 0
    /\ UNCHANGED <<validationResult, isValidating, validationProgress,
                   exportVars, formatVars, checkVars, restVars>>

ValidateInit == ExportInit

\* the values typed into property #1 while a run is under way; null is
\* also the value an undo puts back
RunEditValues == {JsStr(<<"B">>), JsNull}

ValidateNext ==
    \/ \E f \in ValidateFiles : LoadFile(f)
    \/ LoadResult
    \/ \E ref \in PropertyRefs, v \in RunEditValues :
          ref[3] = Prop1Name /\ UpdatePropertyValue(ref, v)
    \/ \E rulePack \in RulePacks : HandleRunValidation(rulePack)
    \/ \E w \in 1..Len(workers) : WorkerValidate(w)
    \/ \E w \in 1..Len(workers) : OnWorkerMessage(w)
    \/ \E w \in 1..Len(workers) : OnWorkerError(w)
    \/ Terminate

SpecValidate == ValidateInit /\ [][ValidateNext]_vars

\* requirement q of rule r is a pattern on an attribute that element e, to
\* which r applies, does not meet
AttributeMismatch(e, r, q) ==
    /\ RuleApplies(e, r)
    /\ q.psetName = AttributesPset /\ q.propertyName = <<"Name">>
    /\ q.checkType = "regex" /\ q.pattern.t = "string"
    /\ ~RegExpThrows(q.pattern.s)
    /\ ~RegExpTest(q.pattern.s, e.name)

\* the result message of worker w, once it has run
ResultOf(w) == workers[w].posted[Len(workers[w].posted)]

\* C10: in a validation run, every applicable element whose Name does not
\* match the pattern of a requirement on the attribute pseudo-property-set
\* gets a Naming issue of that rule.
C10_AttributeRequirementChecked ==
    \A w \in 1..Len(workers) :
        workers[w].pc = "done" =>
            \A i \in 1..Len(workers[w].request.elements),
               j \in 1..Len(workers[w].request.rules) :
                LET e == workers[w].request.elements[i]
                    r == workers[w].request.rules[j]
                IN  \A k \in 1..Len(r.requirements) :
                        AttributeMismatch(e, r, r.requirements[k]) =>
                            \E n \in 1..Len(ResultOf(w).issues) :
                                /\ ResultOf(w).issues[n].expressID = e.expressID
                                /\ ResultOf(w).issues[n].ruleId = r.id
                                /\ ResultOf(w).issues[n].issueType = "Naming"

\* the issues returned for ceIn with this property path
IssuesAt(path) ==
    LET At(issue) == issue.propertyPath = path
    IN  SelectSeq(ceOut.ret, At)

\* requirement i of the rule of ceIn is the only one on its property, and
\* the element has that property
SoleOnFoundProperty(i) ==
    LET reqs == ceIn.rule.requirements
        pset == FindByName(ceIn.element.psets, reqs[i].psetName)
    IN  /\ \A j \in 1..Len(reqs) :
              j /= i => ~(reqs[j].psetName = reqs[i].psetName
                          /\ reqs[j].propertyName = reqs[i].propertyName)
        /\ pset /= <<>>
        /\ FindByName(pset[1].properties, reqs[i].propertyName) /= <<>>

\* the value of the property that requirement i of the rule of ceIn names
CheckedValue(i) ==
    LET req == ceIn.rule.requirements[i]
    IN  FindByName(FindByName(ceIn.element.psets, req.psetName)[1].properties,
                   req.propertyName)[1].value

\* the number v lies within the bounds of req that are given
InsideBounds(req, v) ==
    /\ req.min.t = "number" => v.k >= req.min.k
    /\ req.max.t = "number" => v.k <= req.max.k

\* C11: a range requirement with at least one numeric bound gives exactly
\* one issue for every value that is not a number and for every number
\* outside the bounds, and none for a number inside the bounds.
C11_RangeNonNumbers ==
    (Checked /\ ~ExcludedByNonEmptyList) =>
        \A i \in 1..Len(ceIn.rule.requirements) :
            LET req == ceIn.rule.requirements[i]
            IN  (/\ req.checkType = "range"
                 /\ (req.min.t = "number" \/ req.max.t = "number")
                 /\ SoleOnFoundProperty(i))
                    => Len(IssuesAt(req.psetName \o <<".">> \o req.propertyName))
                          = IF CheckedValue(i).t = "number" /\ InsideBounds(req, CheckedValue(i))
                            THEN 0 ELSE 1


\* the property name an issue is about: its property path after the dot
IssueProperty(issue) ==
    SubstringFrom(issue.propertyPath, IndexOf(issue.propertyPath, <<".">>) + 1)

\* C12: in the result of a validation run, two issues that differ in
\* express id, rule id or property name have different ids.
C12_IssueIdsDistinct ==
    \A w \in 1..Len(workers) :
        workers[w].pc = "done" =>
            \A m, n \in 1..Len(ResultOf(w).issues) :
                LET a == ResultOf(w).issues[m]
                    b == ResultOf(w).issues[n]
                IN  (\/ a.expressID /= b.expressID
                     \/ a.ruleId /= b.ruleId
                     \/ IssueProperty(a) /= IssueProperty(b))
                        => a.id /= b.id

\* the express ids of the elements of a request that some issue names
ElementsWithIssues(request, issues) ==
    {request.elements[i].expressID : i \in
        {j \in 1..Len(request.elements) :
            \E n \in 1..Len(issues) : issues[n].expressID = request.elements[j].expressID}}

\* C13: the result of a validation run has passed = elements minus distinct
\* elements with an issue of any severity, errors and warnings = the issues
\* of severity Error and Warning, totalIssues = the length of the issue list.
C13_ResultCounts ==
    \A w \in 1..Len(workers) :
        workers[w].pc = "done" =>
            LET res == ResultOf(w)
                req == workers[w].request
            IN  /\ res.totalElements = Len(req.elements)
                /\ res.passed = Len(req.elements) - Cardinality(ElementsWithIssues(req, res.issues))
                /\ res.errors
                     = Cardinality({n \in 1..Len(res.issues) : res.issues[n].severity = <<"Error">>})
                /\ res.warnings
                     = Cardinality({n \in 1..Len(res.issues) : res.issues[n].severity = <<"Warning">>})
                /\ res.totalIssues = Len(res.issues)

\* a finished run in which one element has only a warning and another has errors
C13_Witness ==
    \E w \in 1..Len(workers) :
        /\ workers[w].pc = "done"
        /\ ResultOf(w).warnings = 1 /\ ResultOf(w).errors >= 1
        /\ ResultOf(w).passed = 0 /\ ResultOf(w).totalElements = 2
        /\ \E e \in ElementsWithIssues(workers[w].request, ResultOf(w).issues) :
              \A n \in 1..Len(ResultOf(w).issues) :
                  ResultOf(w).issues[n].expressID = e
                      => ResultOf(w).issues[n].severity = <<"Warning">>

\* requirement i of the rule of ceIn is a regex requirement whose pattern
\* does not compile
InvalidRegex(i) ==
    /\ ceIn.rule.requirements[i].checkType = "regex"
    /\ ceIn.rule.requirements[i].pattern.t = "string"
    /\ ceIn.rule.requirements[i].pattern.s \in InvalidPatterns

\* the issues of the requirements of the rule of ceIn other than i, in order
IssuesOfOthers(i) ==
    FlatMap([j \in 1..Len(ceIn.rule.requirements) |->
                IF j = i THEN <<>>
                ELSE CheckRequirement(ceIn.element, ceIn.rule, ceIn.rule.requirements[j])])

\* C14: a regex requirement whose pattern is not a valid regular expression
\* gives no issue, and the call returns the issues of the other
\* requirements of the rule.
C14_InvalidPatternPasses ==
    (Checked /\ ~ExcludedByNonEmptyList) =>
        \A i \in 1..Len(ceIn.rule.requirements) :
            (InvalidRegex(i) /\ SoleOnFoundProperty(i)) =>
                /\ IssuesAt(ceIn.rule.requirements[i].psetName \o <<".">>
                            \o ceIn.rule.requirements[i].propertyName) = <<>>
                /\ ceOut.ret = IssuesOfOthers(i)

\* an invalid pattern on a property with a value, followed by a requirement
\* that is not met
C14_Witness ==
    /\ Checked /\ ~ExcludedByNonEmptyList
    /\ Len(ceIn.rule.requirements) >= 2
    /\ InvalidRegex(1) /\ SoleOnFoundProperty(1)
    /\ CheckedValue(1) = JsStr(<<"A">>)
    /\ ceOut.ret /= <<>>

(***************************************************************************)
(* Conversion of IDS specifications: idsToRulePack on its own              *)
(***************************************************************************)
MaxSpecs == 3

\* specification names with letters of both cases, white space, hyphens and
\* digits
IdsNames ==
    {<<"a">>, <<"A">>, <<"a", " ", "0">>, <<"a", "-", "0">>, <<"a", " ", " ", "0">>,
     <<"a", "-", "1">>, <<"a", "\n", "1">>, <<"0">>, <<"1">>, <<"a", "-">>}

\* the values and patterns parseFacets can give a facet: getSimpleValue and
\* getRestrictionPattern give a non-empty string or undefined
IdsFacetValues == {JsUndefined, JsStr(<<"A">>)}
IdsFacetPatterns == {JsUndefined, JsStr(NamingPattern)}
IdsCardinalities == {"required", "optional", "prohibited"}

\* specifications for walls with one property requirement
IdsFacetSpecs ==
    {[name |-> <<"a">>, applicability |-> <<EntityFacet(<<"IfcWall">>)>>,
      requirements |-> <<[facet |-> PropertyFacet(JsStr(PsetWallCommon), JsStr(pn), v, pat),
                          cardinality |-> c]>>] :
        pn \in {Prop1Name, <<"p">>}, v \in IdsFacetValues, pat \in IdsFacetPatterns,
        c \in IdsCardinalities}

\* specifications of every name that give a rule (one required property)
\* or give none (a material requirement only)
IdsNameSpecs ==
    {[name |-> n, applicability |-> <<EntityFacet(<<"IfcWall">>)>>,
      requirements |-> rs] :
        n \in IdsNames,
        rs \in {<<[facet |-> PropertyFacet(JsStr(PsetWallCommon), JsStr(Prop1Name),
                                           JsUndefined, JsUndefined),
                   cardinality |-> "required"]>>,
                <<[facet |-> Facet("material", JsUndefined, JsUndefined, JsUndefined,
                                   JsUndefined, JsUndefined, JsUndefined),
                   cardinality |-> "required"]>>}}

\* specifications for walls with one attribute requirement
IdsAttributeSpecs ==
    {[name |-> <<"a">>, applicability |-> <<EntityFacet(<<"IfcWall">>)>>,
      requirements |-> <<[facet |-> AttributeFacet(JsStr(<<"Name">>), v, pat),
                          cardinality |-> "required"]>>] :
        v \in IdsFacetValues, pat \in IdsFacetPatterns}

\* one specification with any property or attribute facet, or up to
\* MaxSpecs specifications of any names
IdsSpecLists ==
    {<<spec>> : spec \in IdsFacetSpecs \cup IdsAttributeSpecs}
    \cup UNION {[1..n -> IdsNameSpecs] : n \in 0..MaxSpecs}

IdsToRulePack ==
    /\ idsOut = NoCall
    /\ idsOut' = [call |-> "idsToRulePack", ret |-> idsToRulePack(idsIn.specs, idsIn.fileName)]
    /\ UNCHANGED <<idsIn, exportVars, formatVars, validationVars, checkVars,
                   importVars, historyVars, visibilityVars>>

IdsInit ==
    /\ idsIn \in [specs : IdsSpecLists, fileName : {<<"f.ids">>}]
    /\ idsOut = NoCall
    /\ ifcFile = NoFile
    /\ originalIfcText = JsNull
    /\ elements = <<>>
    /\ isLoading = FALSE
    /\ exportOut = NoCall
    /\ fmtIn = JsNull
    /\ fmtOut = NoCall
    /\ ValidationIdle
    /\ CheckIdle
    /\ rulePacks = <<>>
    /\ importOut = NoImport
    /\ undoStack = <<>>
    /\ redoStack = <<>>
    /\ historyOut = NoCall
    /\ hiddenIDs = {}
    /\ isolatedIDs = [t |-> "null"]

IdsNext == IdsToRulePack

SpecIds == IdsInit /\ [][IdsNext]_vars

Converted == idsOut /= NoCall

\* every specification of idsIn has property requirements only, and at
\* least one, so that rule i is the rule of specification i
OnlyPropertyFacets ==
    \A i \in 1..Len(idsIn.specs) :
        /\ Len(idsIn.specs[i].requirements) > 0
        /\ \A j \in 1..Len(idsIn.specs[i].requirements) :
              idsIn.specs[i].requirements[j].facet.type = "property"

\* requirement q is the one the text gives for the required property facet f
RequiredFacetRequirement(f, q) ==
    /\ q.psetName = f.psetName.s
    /\ q.propertyName = f.propertyName.s
    /\ IF f.value /= JsUndefined
       THEN q.checkType = "equals" /\ q.expected = f.value
       ELSE IF f.pattern /= JsUndefined
            THEN q.checkType = "regex" /\ q.pattern = f.pattern
       ELSE q.checkType = "notEmpty"

\* C15: a property facet with cardinality required becomes a requirement
\* with the facet's property-set and property names whose check is equals
\* with the literal when a value is given, regex with the pattern when only
\* a pattern is given, and notEmpty when neither is given.
C15_RequiredPropertyFacet ==
    (Converted /\ OnlyPropertyFacets) =>
        /\ Len(idsOut.ret.rules) = Len(idsIn.specs)
        /\ \A i \in 1..Len(idsIn.specs) :
              /\ Len(idsOut.ret.rules[i].requirements) = Len(idsIn.specs[i].requirements)
              /\ \A j \in 1..Len(idsIn.specs[i].requirements) :
                    idsIn.specs[i].requirements[j].cardinality = "required" =>
                        RequiredFacetRequirement(idsIn.specs[i].requirements[j].facet,
                                                 idsOut.ret.rules[i].requirements[j])

\* a required facet with both a value and a pattern has been converted
C15_Witness ==
    /\ Converted /\ OnlyPropertyFacets
    /\ Len(idsIn.specs) = 1
    /\ idsIn.specs[1].requirements[1].cardinality = "required"
    /\ idsIn.specs[1].requirements[1].facet.value = JsStr(<<"A">>)
    /\ idsIn.specs[1].requirements[1].facet.pattern = JsStr(NamingPattern)
    /\ idsOut.ret.rules[1].requirements[1].checkType = "equals"

\* C16: the ids of the rules of one pack are pairwise distinct.
C16_RuleIdsDistinct ==
    Converted =>
        \A i, j \in 1..Len(idsOut.ret.rules) :
            idsOut.ret.rules[i].id = idsOut.ret.rules[j].id => i = j

\* two specifications of one name after a specification that gives no rule
\* have been converted to two rules
C16_Witness ==
    /\ Converted
    /\ Len(idsIn.specs) = 3
    /\ idsIn.specs[1].requirements[1].facet.type = "material"
    /\ idsIn.specs[2].name = idsIn.specs[3].name
    /\ Len(idsOut.ret.rules) = 2
    /\ idsOut.ret.rules[1].name = idsOut.ret.rules[2].name

(***************************************************************************)
(* Import of an IDS file: parseIdsXml and the dialog's handleImportIds.    *)
(* A document is what DOMParser returns: its parsererror elements (one     *)
(* text each) and its specification elements, which a parser may have      *)
(* built up to the point of the error.                                     *)
(***************************************************************************)
MaxImports == 2

\* getSimpleValue and getRestrictionPattern: the text of the element, or
\* undefined when the element is absent or its text is empty
getSimpleValue(el) == IF Truthy(el) THEN el ELSE JsUndefined

\* the facets pushed for one child element
ParseFacet(child) ==
    CASE child.tagName = "entity" ->
            IF Truthy(getSimpleValue(child.name))
            THEN <<EntityFacet(getSimpleValue(child.name).s)>> ELSE <<>>
      [] child.tagName = "attribute" ->
            <<AttributeFacet(JsStr(OrElse(getSimpleValue(child.name), <<>>)),
                             getSimpleValue(child.value), getSimpleValue(child.pattern))>>
      [] child.tagName = "property" ->
            <<PropertyFacet(JsStr(OrElse(getSimpleValue(child.propertyset), <<>>)),
                            JsStr(OrElse(getSimpleValue(child.name), <<>>)),
                            getSimpleValue(child.value), getSimpleValue(child.pattern))>>
      [] child.tagName \in {"classification", "material"} ->
            <<Facet(child.tagName, JsUndefined, JsUndefined, JsUndefined, JsUndefined,
                    JsUndefined, JsUndefined)>>
      [] child.tagName = "partof" ->
            <<Facet("partOf", JsUndefined, JsUndefined, JsUndefined, JsUndefined,
                    JsUndefined, JsUndefined)>>
      [] OTHER -> <<>>

parseFacets(children) == FlatMap([i \in 1..Len(children) |-> ParseFacet(children[i])])

\* the specification of one element, or nothing when it has neither
\* applicability nor requirements
parseSpecification(specEl) ==
    LET applicability == parseFacets(specEl.applicability)
        facets == parseFacets(specEl.requirements)
        requirements == [i \in 1..Len(facets) |->
                            [facet |-> facets[i],
                             cardinality |-> IF Truthy(specEl.cardinality)
                                             THEN specEl.cardinality.s[1] ELSE "required"]]
    IN  IF Len(applicability) = 0 /\ Len(requirements) = 0 THEN <<>>
        ELSE <<[name |-> OrElse(specEl.name,
                                <<"Specification ">> \o OrElse(specEl.ifcVersion, <<>>)),
                applicability |-> applicability, requirements |-> requirements]>>

\* the specifications of all specification elements, parser errors or not
parseIdsXmlIgnoringErrors(doc) ==
    [threw |-> FALSE,
     specs |-> FlatMap([i \in 1..Len(doc.specifications) |->
                          parseSpecification(doc.specifications[i])])]

parseIdsXml(doc) ==
    IF Len(doc.parsererrors) > 0
    THEN [threw |-> TRUE, message |-> <<"Invalid IDS XML: ">> \o doc.parsererrors[1]]
    ELSE [threw |-> FALSE,
          specs |-> FlatMap([i \in 1..Len(doc.specifications) |->
                               parseSpecification(doc.specifications[i])])]

\* child elements of applicability and requirements
FacetElement(tagName, name, propertyset, value, pattern) ==
    [tagName |-> tagName, name |-> name, propertyset |-> propertyset, value |-> value,
     pattern |-> pattern]

\* a named specification for walls that requires a value of property #1
WallSpecElement ==
    [name |-> JsStr(<<"n">>), ifcVersion |-> JsNull, cardinality |-> JsNull,
     applicability |-> <<FacetElement("entity", JsStr(<<"IfcWall">>), JsUndefined,
                                      JsUndefined, JsUndefined)>>,
     requirements |-> <<FacetElement("property", JsStr(Prop1Name), JsStr(PsetWallCommon),
                                     JsStr(<<>>), JsUndefined)>>]

\* an unnamed specification with an attribute requirement and a material one
UnnamedSpecElement ==
    [name |-> JsNull, ifcVersion |-> JsStr(<<"4">>), cardinality |-> JsStr(<<"optional">>),
     applicability |-> <<FacetElement("entity", JsStr(<<>>), JsUndefined, JsUndefined,
                                      JsUndefined)>>,
     requirements |-> <<FacetElement("attribute", JsStr(<<"Name">>), JsUndefined,
                                     JsUndefined, JsStr(NamingPattern)),
                        FacetElement("material", JsUndefined, JsUndefined, JsUndefined,
                                     JsUndefined)>>]

\* a specification element without applicability and requirements
EmptySpecElement ==
    [name |-> JsStr(<<"e">>), ifcVersion |-> JsNull, cardinality |-> JsNull,
     applicability |-> <<>>, requirements |-> <<>>]

\* the files offered to the dialog: well-formed ones, and malformed ones
\* with or without specification elements before the error
IdsFiles ==
    {[name |-> <<"f.ids">>, parsererrors |-> errs, specifications |-> els] :
        errs \in {<<>>, <<<<>>>>, <<<<"e">>, <<"x">>>>},
        els \in {<<>>, <<WallSpecElement>>,
                 <<EmptySpecElement, UnnamedSpecElement, WallSpecElement>>}}

\* the snack bar message of an import
Snackbar(message, severity) == [message |-> message, severity |-> severity]

\* handleImportIds up to its await of file.text(); without a file it returns
HandleImportIds(files) ==
    /\ importOut.calls < MaxImports
    /\ importOut' = [importOut EXCEPT !.calls = @ + 1, !.reading = @ \o files]
    /\ UNCHANGED <<exportVars, formatVars, validationVars, checkVars, idsVars, rulePacks,
                   historyVars, visibilityVars>>

\* handleImportIds from the moment the text of file k has been read
FileTextRead(k) ==
    LET file == importOut.reading[k]
        parsed == parseIdsXml(file)
        pack == idsToRulePack(parsed.specs, file.name)
        rest == SelectIdx(Len(importOut.reading), 1..Len(importOut.reading) \ {k})
    IN  /\ rulePacks' = IF parsed.threw THEN rulePacks ELSE Append(rulePacks, pack)
        /\ importOut' =
              [importOut EXCEPT
                 !.reading = [i \in 1..Len(rest) |-> importOut.reading[rest[i]]],
                 !.completed = @ + 1,
                 !.outcome =
                    IF parsed.threw
                    THEN [call |-> "handleImportIds", file |-> file, specs |-> JsUndefined,
                          selectedPack |-> JsUndefined,
                          snackbar |-> Snackbar(<<"IDS import failed: ">> \o parsed.message,
                                                "error")]
                    ELSE [call |-> "handleImportIds", file |-> file,
                          specs |-> JsArray(parsed.specs),
                          selectedPack |-> JsStr(pack.name),
                          snackbar |-> Snackbar(<<"Imported IDS: ">> \o Digits(Len(pack.rules))
                                                \o <<" rules from ">> \o file.name,
                                                "success")]]
        /\ UNCHANGED <<exportVars, formatVars, validationVars, checkVars, idsVars,
                       historyVars, visibilityVars>>

ImportNext ==
    \/ \E files \in {<<>>} \cup {<<f>> : f \in IdsFiles} : HandleImportIds(files)
    \/ \E k \in 1..Len(importOut.reading) : FileTextRead(k)

SpecImport == ExportInit /\ [][ImportNext]_vars

\* this step ends the import of a file
ImportEnds == importOut'.completed = importOut.completed + 1

\* the file is malformed: the parser has left a parsererror element
Malformed(file) == Len(file.parsererrors) > 0

\* C17: the import of a malformed document ends with an 'Invalid IDS XML'
\* error, hands over no specification list and leaves the list of rule
\* packs as it was.
C17_MalformedImportFails ==
    [][(ImportEnds /\ Malformed(importOut'.outcome.file)) =>
          /\ importOut'.outcome.snackbar.severity = "error"
          /\ SubSeq(importOut'.outcome.snackbar.message, 1, 2)
                = <<"IDS import failed: ", "Invalid IDS XML: ">>
          /\ importOut'.outcome.specs = JsUndefined
          /\ rulePacks' = rulePacks]_vars

\* a malformed file with specification elements before the error has been
\* imported after a well-formed one
C17_Witness ==
    /\ importOut.completed = 2
    /\ Malformed(importOut.outcome.file)
    /\ importOut.outcome.file.specifications /= <<>>
    /\ Len(rulePacks) = 1

(***************************************************************************)
(* The edit history store                                                  *)
(***************************************************************************)
MaxEdits == 3

\* edits of property #1 of the first element, as handlePropertyChange
\* builds them
EditActions ==
    {[elementIDs |-> <<FirstElementID>>, psetName |-> PsetWallCommon,
      propertyName |-> Prop1Name, oldValues |-> <<JsStr(<<"A">>)>>, newValue |-> v] :
        v \in {JsStr(<<"2", "H", "R">>), JsStr(<<"3", "H", "R">>), JsNull}}

\* the two stacks of a store state
Stacks(undo, redo) == [undoStack |-> undo, redoStack |-> redo]

\* a new edit leaves the redo stack alone
pushEditKeepingRedo(s, action) == Stacks(Append(s.undoStack, action), s.redoStack)

pushEdit(s, action) == Stacks(Append(s.undoStack, action), <<>>)

\* undo forgets the action it takes off the undo stack
undoDroppingAction(s) ==
    IF s.undoStack = <<>> THEN [state |-> s, ret |-> JsUndefined]
    ELSE [state |-> Stacks(SubSeq(s.undoStack, 1, Len(s.undoStack) - 1), s.redoStack),
          ret |-> s.undoStack[Len(s.undoStack)]]

\* the state after undo() and the value it returns
undo(s) ==
    IF s.undoStack = <<>> THEN [state |-> s, ret |-> JsUndefined]
    ELSE [state |-> Stacks(SubSeq(s.undoStack, 1, Len(s.undoStack) - 1),
                           Append(s.redoStack, s.undoStack[Len(s.undoStack)])),
          ret |-> s.undoStack[Len(s.undoStack)]]

\* the state after redo() and the value it returns
redo(s) ==
    IF s.redoStack = <<>> THEN [state |-> s, ret |-> JsUndefined]
    ELSE [state |-> Stacks(Append(s.undoStack, s.redoStack[Len(s.redoStack)]),
                           SubSeq(s.redoStack, 1, Len(s.redoStack) - 1)),
          ret |-> s.redoStack[Len(s.redoStack)]]

clear == Stacks(<<>>, <<>>)

HistoryUnchanged ==
    UNCHANGED <<exportVars, formatVars, validationVars, checkVars, idsVars, importVars,
                visibilityVars>>

PushEdit(action) ==
    /\ Len(undoStack) < MaxEdits
    /\ undoStack' = pushEdit(Stacks(undoStack, redoStack), action).undoStack
    /\ redoStack' = pushEdit(Stacks(undoStack, redoStack), action).redoStack
    /\ historyOut' = [call |-> "pushEdit", ret |-> JsUndefined]
    /\ HistoryUnchanged

Undo ==
    /\ undoStack' = undo(Stacks(undoStack, redoStack)).state.undoStack
    /\ redoStack' = undo(Stacks(undoStack, redoStack)).state.redoStack
    /\ historyOut' = [call |-> "undo", ret |-> undo(Stacks(undoStack, redoStack)).ret]
    /\ HistoryUnchanged

Redo ==
    /\ undoStack' = redo(Stacks(undoStack, redoStack)).state.undoStack
    /\ redoStack' = redo(Stacks(undoStack, redoStack)).state.redoStack
    /\ historyOut' = [call |-> "redo", ret |-> redo(Stacks(undoStack, redoStack)).ret]
    /\ HistoryUnchanged

Clear ==
    /\ undoStack' = clear.undoStack
    /\ redoStack' = clear.redoStack
    /\ historyOut' = [call |-> "clear", ret |-> JsUndefined]
    /\ HistoryUnchanged

HistoryNext ==
    \/ \E action \in EditActions : PushEdit(action)
    \/ Undo
    \/ Redo
    \/ Clear

SpecHistory == ExportInit /\ [][HistoryNext]_vars

\* C18: pushEdit(a) puts a on top of the undo stack, keeps the entries
\* below it as they were and in order, and empties the redo stack.
C18_PushEdit ==
    [][\A action \in EditActions :
          PushEdit(action) =>
              /\ Len(undoStack') = Len(undoStack) + 1
              /\ undoStack'[Len(undoStack')] = action
              /\ SubSeq(undoStack', 1, Len(undoStack)) = undoStack
              /\ redoStack' = <<>>]_vars

\* edits have been pushed until the undo stack holds MaxEdits actions, the
\* two at the bottom different, and the redo stack is empty
C18_Witness ==
    /\ historyOut.call = "pushEdit"
    /\ Len(undoStack) = MaxEdits
    /\ undoStack[1] /= undoStack[2]
    /\ redoStack = <<>>

\* the step takes the top of stack from and puts it on top of stack to
Moves(from, fromNext, to, toNext, ret) ==
    /\ ret = from[Len(from)]
    /\ fromNext = SubSeq(from, 1, Len(from) - 1)
    /\ toNext = Append(to, from[Len(from)])

\* C19: undo moves the last action of the undo stack to the top of the redo
\* stack and returns it, redo moves the top of the redo stack back and
\* returns it, a redo after an undo restores both stacks, and on an empty
\* stack either returns undefined and changes nothing.
C19_UndoRedo ==
    [][/\ (Undo /\ undoStack /= <<>>) =>
              /\ Moves(undoStack, undoStack', redoStack, redoStack', historyOut'.ret)
              /\ redo(Stacks(undoStack', redoStack')).state = Stacks(undoStack, redoStack)
              /\ redo(Stacks(undoStack', redoStack')).ret = historyOut'.ret
       /\ (Redo /\ redoStack /= <<>>) =>
              Moves(redoStack, redoStack', undoStack, undoStack', historyOut'.ret)
       /\ (Undo /\ undoStack = <<>>) =>
              historyOut'.ret = JsUndefined /\ UNCHANGED <<undoStack, redoStack>>
       /\ (Redo /\ redoStack = <<>>) =>
              historyOut'.ret = JsUndefined /\ UNCHANGED <<undoStack, redoStack>>]_vars

\* a redo has given back an undone action with both stacks holding actions
C19_Witness ==
    /\ historyOut.call = "redo"
    /\ historyOut.ret \in EditActions
    /\ Len(undoStack) >= 2
    /\ undoStack[Len(undoStack)] = historyOut.ret
    /\ redoStack /= <<>>

\* the run of worker w was aborted: its worker was terminated before its
\* result was handed over
Aborted(w) == workers[w].terminated /\ workers[w].promise = "pending"

\* this step stores the result of a run other than w that was not terminated
StoresResultOfOther(w) ==
    \E u \in 1..Len(workers) :
        /\ u /= w /\ ~workers[u].terminated
        /\ workers[u].pc = "done"
        /\ workers'[u].delivered = Len(workers[u].posted)
        /\ workers[u].delivered = Len(workers[u].posted) - 1
        /\ validationResult' = StoredResult(workers[u].request, ResultOf(u))

\* C20: once the worker of a run has been terminated, no message of that
\* run is handed over any more, and the stored validationResult is not
\* changed by that run: terminate leaves it as it is, and afterwards it
\* changes only when a file is loaded or another run hands over its result.
C20_TerminateLeavesNoResult ==
    [][/\ \A w \in 1..Len(workers) :
             Aborted(w) =>
                /\ workers'[w] = workers[w]
                /\ validationResult' /= validationResult =>
                      \/ validationResult' = JsNull /\ ~isLoading /\ isLoading'
                      \/ StoresResultOfOther(w)
       /\ serviceWorker /= 0 /\ serviceWorker' = 0 =>
             /\ validationResult' = validationResult
             /\ workers'[serviceWorker].terminated]_vars

\* the second run was terminated after its worker had posted its messages
\* and one progress message had been handed over; the result of the first
\* run is still the stored one
C20_Witness ==
    /\ Len(workers) = 2
    /\ workers[1].promise = "resolved"
    /\ Aborted(2)
    /\ workers[2].pc = "done"
    /\ workers[2].delivered >= 1
    /\ workers[2].delivered < Len(workers[2].posted)
    /\ validationResult = StoredResult(workers[1].request, ResultOf(1))
    /\ validationResult /= StoredResult(workers[2].request, ResultOf(2))

\* the run of worker w has started and has neither given its result nor
\* failed
InFlight(w) == workers[w].promise = "pending"

\* C21: at most one validation run is in flight at any time.
C21_OneRunInFlight ==
    \A u, w \in 1..Len(workers) : (InFlight(u) /\ InFlight(w)) => u = w

\* a second run is in flight after the first has given its result
C21_Witness ==
    /\ Len(workers) = 2
    /\ workers[1].promise = "resolved"
    /\ InFlight(2) /\ ~workers[2].terminated
    /\ isValidating

\* the issues of the elements of a request under its rules
IssuesOfRequest(request) ==
    FlatMap([i \in 1..Len(request.elements) |-> ElementIssues(request.elements[i], request.rules)])

\* the elements of the store as validate() would copy them now
LiveElements == [i \in 1..Len(elements) |-> ValidateElement(elements[i])]

\* C22: the issues a run reports are those of the elements as validate()
\* copied them at dispatch, whatever edits came after.
C22_PointInTimeCopy ==
    \A w \in 1..Len(workers) :
        workers[w].pc = "done" =>
            ResultOf(w).issues = IssuesOfRequest(workers[w].request)

\* a run has given its result after an edit changed the property its issue
\* is about: the stored issues are not those of the live elements
C22_Witness ==
    /\ Len(workers) >= 1
    /\ workers[1].promise = "resolved"
    /\ workers[1].request.elements /= LiveElements
    /\ Len(workers[1].request.elements) = Len(elements)
    /\ validationResult.t = "result"
    /\ validationResult.issues = IssuesOfRequest(workers[1].request)
    /\ validationResult.issues
          /= IssuesOfRequest([workers[1].request EXCEPT !.elements = LiveElements])

(***************************************************************************)
(* The visibility store                                                    *)
(***************************************************************************)
MaxVisibleIDs == 4

\* the express ids the viewer hides and isolates
VisibilityIDs == 1..MaxVisibleIDs

\* isVisible(id) in a store with these hidden and isolated ids
isVisible(hidden, isolated, id) ==
    IF isolated /= JsNull THEN id \in isolated.ids ELSE id \notin hidden

VisibilityUnchanged ==
    UNCHANGED <<exportVars, formatVars, validationVars, checkVars, idsVars, importVars,
                historyVars>>

HideElements(ids) ==
    /\ hiddenIDs' = hiddenIDs \cup ids
    /\ UNCHANGED isolatedIDs
    /\ VisibilityUnchanged

UnhideAll ==
    /\ hiddenIDs' = {}
    /\ isolatedIDs' = JsNull
    /\ VisibilityUnchanged

IsolateElements(ids) ==
    /\ isolatedIDs' = [t |-> "set", ids |-> ids]
    /\ hiddenIDs' = {}
    /\ VisibilityUnchanged

ClearIsolation ==
    /\ isolatedIDs' = JsNull
    /\ UNCHANGED hiddenIDs
    /\ VisibilityUnchanged

VisibilityNext ==
    \/ \E ids \in SUBSET VisibilityIDs : HideElements(ids)
    \/ UnhideAll
    \/ \E ids \in SUBSET VisibilityIDs : IsolateElements(ids)
    \/ ClearIsolation

SpecVisibility == ExportInit /\ [][VisibilityNext]_vars

\* C23: after hideElements(ids) no id of ids is visible, and every other id
\* is as visible as before.
C23_HideElements ==
    [][\A ids \in SUBSET VisibilityIDs :
          HideElements(ids) =>
              \A id \in VisibilityIDs :
                  IF id \in ids THEN ~isVisible(hiddenIDs', isolatedIDs', id)
                  ELSE isVisible(hiddenIDs', isolatedIDs', id)
                          = isVisible(hiddenIDs, isolatedIDs, id)]_vars

\* the patches of the store that name property record id
PatchesOf(id) == {i \in 1..Len(CurrentPatches) : CurrentPatches[i].expressID = id}

\* the properties of the store that are to be patched
Patchable == {sp \in StoreProperties : sp.editable /\ Changed(sp.prop)}

\* C24: collectModifiedProperties gives exactly one patch for each property
\* of an editable property set that is modified and differs from its
\* original value, and none for any other property.
C24_OnePatchPerChange ==
    Exported =>
        /\ \A sp \in StoreProperties :
              Cardinality(PatchesOf(sp.prop.expressID)) = IF sp \in Patchable THEN 1 ELSE 0
        /\ Len(CurrentPatches) = Cardinality(Patchable)
        /\ \A i \in 1..Len(CurrentPatches) :
              \E sp \in Patchable :
                  /\ CurrentPatches[i].expressID = sp.prop.expressID
                  /\ CurrentPatches[i].propertyName = sp.prop.name
                  /\ CurrentPatches[i].oldValue = formatIfcValue(sp.prop.originalValue)
                  /\ CurrentPatches[i].newValue = formatIfcValue(sp.prop.value)

\* an export of a model with a changed editable property, an editable
\* property set back to its original value and a changed read-only property
C24_Witness ==
    /\ Exported
    /\ Cardinality(Patchable) = 1
    /\ \E sp \in StoreProperties : sp.editable /\ sp.prop.modified /\ ~Changed(sp.prop)
    /\ \E sp \in StoreProperties : ~sp.editable /\ Changed(sp.prop)

(***************************************************************************)
(* An editing session: single edits, batch edits and undo in the inspector *)
(***************************************************************************)
MaxSessionEdits == 2

\* a second wall that is related to the property sets of the first
Wall2 == [ifcClass |-> <<"IfcWall">>, name |-> <<"W", "2">>, sharesPsets |-> TRUE]

SessionFiles ==
    [layout : {"plain"}, shape1 : {"canon"}, shape2 : {"canon"},
     orig1 : {JsNull, JsStr(<<"A">>)}, entities : {<<Wall1, Wall2>>}]

\* values typed into a property field
SessionValues == {JsStr(<<"B">>), JsNull}

\* texts typed into the value field of the batch dialog
BatchValues == {<<>>, <<"B">>, <<"2">>, <<"t", "r", "u", "e">>}

\* the value applyBatchEdit makes of the text of the value field
ParseBatchValue(batchValue) ==
    IF batchValue = <<>> THEN JsNull
    ELSE IF batchValue = <<"t", "r", "u", "e">> THEN JsBool(TRUE)
    ELSE IF batchValue = <<"f", "a", "l", "s", "e">> THEN JsBool(FALSE)
    ELSE IF StringToNumber(batchValue) /= NaN /\ TrimWhitespace(batchValue) /= <<>>
         THEN StringToNumber(batchValue)
    ELSE JsStr(batchValue)

\* the value is null or the empty string
IsEmptyValue(v) == v = JsNull \/ v = JsUndefined \/ v = JsStr(<<>>)

\* pset?.properties.find: the property of that name in the first property
\* set of that name, as a list of at most one
FindProperty(el, psetName, propertyName) ==
    LET psets == SelectIdx(Len(el.psets), {q \in 1..Len(el.psets) : el.psets[q].name = psetName})
        props == IF psets = <<>> THEN <<>> ELSE el.psets[psets[1]].properties
        found == SelectIdx(Len(props), {p \in 1..Len(props) : props[p].name = propertyName})
    IN  IF found = <<>> THEN <<>> ELSE <<props[found[1]]>>

\* the entries of oldValues that applyBatchEdit sets for one element
BatchOldValue(el, psetName, propertyName, mode) ==
    LET prop == FindProperty(el, psetName, propertyName)
    IN  IF prop = <<>> THEN <<>>
        ELSE IF mode = "fillEmpty" /\ ~IsEmptyValue(prop[1].value) THEN <<>>
        ELSE <<[elementID |-> el.expressID, value |-> prop[1].value]>>

\* whether applyBatchEdit calls updatePropertyValue for one element
BatchUpdates(el, psetName, propertyName, mode) ==
    mode = "overwrite" \/ BatchOldValue(el, psetName, propertyName, mode) /= <<>>

RECURSIVE ApplyUpdates(_, _, _, _)
\* updatePropertyValue for every entry of updates, in order
ApplyUpdates(els, updates, psetName, propertyName) ==
    IF updates = <<>> THEN els
    ELSE ApplyUpdates(updatePropertyValue(els, Head(updates).elementID, psetName,
                                          propertyName, Head(updates).value),
                      Tail(updates), psetName, propertyName)

EditAction(elementIDs, psetName, propertyName, oldValues, newValue) ==
    [elementIDs |-> elementIDs, psetName |-> psetName, propertyName |-> propertyName,
     oldValues |-> oldValues, newValue |-> newValue]

SessionUnchanged ==
    UNCHANGED <<ifcFile, originalIfcText, isLoading, formatVars, validationVars, checkVars,
                idsVars, importVars, visibilityVars>>

\* handlePropertyChange for property p of editable property set q of element e
HandlePropertyChange(e, q, p, newValue) ==
    LET el == elements[e]
        pset == el.psets[q]
        prop == pset.properties[p]
        action == EditAction(<<el.expressID>>, pset.name, prop.name,
                             <<[elementID |-> el.expressID, value |-> prop.value]>>, newValue)
    IN  /\ pset.isEditable
        /\ Len(undoStack) < MaxSessionEdits
        /\ undoStack' = pushEdit(Stacks(undoStack, redoStack), action).undoStack
        /\ redoStack' = pushEdit(Stacks(undoStack, redoStack), action).redoStack
        /\ elements' = updatePropertyValue(elements, el.expressID, pset.name, prop.name, newValue)
        /\ exportOut' = NoCall
        /\ historyOut' = [call |-> "handlePropertyChange", ret |-> JsUndefined]
        /\ SessionUnchanged

\* applyBatchEdit on the selected elements sel (indices into elements)
ApplyBatchEdit(sel, batchPset, batchProp, batchValue, batchMode) ==
    LET parsedValue == ParseBatchValue(batchValue)
        selected == SelectIdx(Len(elements), sel)
        oldValues == FlatMap([i \in 1..Len(selected) |->
                        BatchOldValue(elements[selected[i]], batchPset, batchProp, batchMode)])
        updated == SelectIdx(Len(elements),
                             {i \in sel : BatchUpdates(elements[i], batchPset, batchProp,
                                                       batchMode)})
        updates == [i \in 1..Len(updated) |->
                       [elementID |-> elements[updated[i]].expressID, value |-> parsedValue]]
        action == EditAction([i \in 1..Len(oldValues) |-> oldValues[i].elementID],
                             batchPset, batchProp, oldValues, parsedValue)
    IN  /\ Len(undoStack) < MaxSessionEdits
        /\ elements' = ApplyUpdates(elements, updates, batchPset, batchProp)
        /\ undoStack' = pushEdit(Stacks(undoStack, redoStack), action).undoStack
        /\ redoStack' = pushEdit(Stacks(undoStack, redoStack), action).redoStack
        /\ exportOut' = NoCall
        /\ historyOut' = [call |-> "applyBatchEdit", ret |-> JsUndefined]
        /\ SessionUnchanged

\* an undo that puts back the value of the first element only
HandleUndoFirstOnly ==
    LET undone == undo(Stacks(undoStack, redoStack))
    IN  /\ undoStack' = undone.state.undoStack
        /\ redoStack' = undone.state.redoStack
        /\ elements' = IF undone.ret = JsUndefined THEN elements
                       ELSE ApplyUpdates(elements,
                                         SelectSeq(undone.ret.oldValues,
                                                   LAMBDA o : o.elementID = FirstElementID),
                                         undone.ret.psetName,
                                         undone.ret.propertyName)
        /\ exportOut' = NoCall
        /\ historyOut' = [call |-> "handleUndo", ret |-> undone.ret]
        /\ SessionUnchanged

\* handleUndo: the values of the undone action are put back
HandleUndo ==
    LET undone == undo(Stacks(undoStack, redoStack))
    IN  /\ undoStack' = undone.state.undoStack
        /\ redoStack' = undone.state.redoStack
        /\ elements' = IF undone.ret = JsUndefined THEN elements
                       ELSE ApplyUpdates(elements, undone.ret.oldValues, undone.ret.psetName,
                                         undone.ret.propertyName)
        /\ exportOut' = NoCall
        /\ historyOut' = [call |-> "handleUndo", ret |-> undone.ret]
        /\ SessionUnchanged

\* the export of the session
SessionExport(forceRewrite) ==
    /\ ~isLoading /\ elements /= <<>>
    /\ ExportModifiedIfc(forceRewrite)

\* the editable property sets the selected elements have, and their
\* properties
CommonPsets(sel) ==
    {<<elements[i].psets[q].name, elements[i].psets[q].properties[p].name>> :
        <<i, q, p>> \in {t \in sel \X (1..2) \X (1..2) :
                            /\ t[2] <= Len(elements[t[1]].psets)
                            /\ elements[t[1]].psets[t[2]].isEditable
                            /\ t[3] <= Len(elements[t[1]].psets[t[2]].properties)}}

SessionNext ==
    \/ \E f \in SessionFiles : LoadFile(f)
    \/ LoadResult
    \/ \E e \in 1..Len(elements), v \in SessionValues :
          /\ elements[e].psets /= <<>>
          /\ HandlePropertyChange(e, 1, 1, v)
    \/ \E sel \in SUBSET (1..Len(elements)), bv \in BatchValues,
          mode \in {"overwrite", "fillEmpty"} :
          /\ sel /= {}
          /\ \E target \in CommonPsets(sel) :
                target[2] = Prop1Name /\ ApplyBatchEdit(sel, target[1], target[2], bv, mode)
    \/ HandleUndo
    \/ \E force \in BOOLEAN : SessionExport(force)

SpecSession == ExportInit /\ [][SessionNext]_vars

\* the positions <<element, property set, property>> of the store
Positions ==
    {t \in (1..Len(elements)) \X (1..2) \X (1..2) :
        /\ t[2] <= Len(elements[t[1]].psets)
        /\ t[3] <= Len(elements[t[1]].psets[t[2]].properties)}

PropertyAt(els, t) == els[t[1]].psets[t[2]].properties[t[3]]

\* this step neither loads a model nor resets the store
KeepsModel == elements /= <<>> /\ Len(elements') = Len(elements)

\* C25: an edit that finds its property leaves it flagged modified, no step
\* other than loading a model clears the flag, also not one that puts the
\* original value back, and no such step changes originalValue.
C25_ModifiedSticks ==
    [][/\ \A e \in 1..Len(elements), v \in SessionValues :
             (elements[e].psets /= <<>> /\ HandlePropertyChange(e, 1, 1, v)) =>
                 /\ PropertyAt(elements', <<e, 1, 1>>).modified
                 /\ PropertyAt(elements', <<e, 1, 1>>).value = v
       /\ KeepsModel =>
             \A t \in Positions :
                 /\ PropertyAt(elements', t).originalValue = PropertyAt(elements, t).originalValue
                 /\ PropertyAt(elements, t).modified => PropertyAt(elements', t).modified
                 /\ PropertyAt(elements', t).value /= PropertyAt(elements, t).value
                       => PropertyAt(elements', t).modified]_vars

\* an undo has put the original value of an edited property back, and the
\* property is still flagged modified
C25_Witness ==
    /\ historyOut.call = "handleUndo"
    /\ historyOut.ret /= JsUndefined
    /\ undoStack = <<>>
    /\ \E t \in Positions :
          /\ PropertyAt(elements, t).modified
          /\ PropertyAt(elements, t).value = PropertyAt(elements, t).originalValue
          /\ PropertyAt(elements, t).value /= historyOut.ret.newValue

\* a model is loaded and no action is left on the undo stack
AllUndone == ~isLoading /\ elements /= <<>> /\ undoStack = <<>>

\* C30: when every action of the undo stack has been undone, every property
\* has its original value again and an export gives the original text.
C30_UndoAllRestores ==
    AllUndone =>
        /\ \A t \in Positions :
              PropertyAt(elements, t).value = PropertyAt(elements, t).originalValue
        /\ Exported => (exportOut.ret.status = "ok" /\ exportOut.ret.blob = originalIfcText)

\* a single edit and a batch edit of both walls have been undone and the
\* model exported; the properties of both walls are still flagged modified
C30_Witness ==
    /\ AllUndone /\ Exported
    /\ historyOut.call = "handleUndo"
    /\ Len(redoStack) = 2
    /\ \E i \in 1..2 : Len(redoStack[i].oldValues) = 2
    /\ \E i \in 1..2 : Len(redoStack[i].oldValues) = 1
    /\ \A e \in 1..Len(elements) : PropertyAt(elements, <<e, 1, 1>>).modified

\* the check type the value/pattern precedence of property facets gives
PrecedenceCheckType(f) ==
    IF f.value /= JsUndefined THEN "equals"
    ELSE IF f.pattern /= JsUndefined THEN "regex" ELSE "notEmpty"

\* C26: an attribute facet gets the check type that a required property
\* facet of the same value and pattern gets: equals for a value, else regex
\* for a pattern, else notEmpty.
C26_AttributePrecedence ==
    (Converted /\ Len(idsIn.specs) = 1
        /\ idsIn.specs[1].requirements[1].facet.type = "attribute") =>
        /\ Len(idsOut.ret.rules) = 1
        /\ idsOut.ret.rules[1].requirements[1].checkType
              = PrecedenceCheckType(idsIn.specs[1].requirements[1].facet)

\* the stored result counts the elements of the loaded model, and each of
\* its issues is about one of them
ResultOfLoadedModel ==
    /\ validationResult.totalElements = Len(elements)
    /\ \A i \in 1..Len(validationResult.issues) :
          \E e \in 1..Len(elements) :
              /\ elements[e].expressID = validationResult.issues[i].expressID
              /\ elements[e].ifcClass = validationResult.issues[i].ifcClass
              /\ elements[e].name = validationResult.issues[i].name

\* C27: a stored validation result was computed from the model that is
\* loaded now.
C27_ResultOfCurrentModel ==
    validationResult /= JsNull => ResultOfLoadedModel

(***************************************************************************)
(* Progress of a validation run over models of many elements               *)
(***************************************************************************)
MaxTotal == 2100

\* the element counts of the models: one element, one progress mark, and
\* many marks
ProgressTotals == {1, ProgressEvery, MaxTotal \div 2, MaxTotal - ProgressEvery, MaxTotal}

\* a pipe segment, to which no rule of the built-in pack applies
Pipe1 == [ifcClass |-> <<"IfcPipeSegment">>, name |-> <<"P">>]

ProgressFiles ==
    {[layout |-> "plain", shape1 |-> "canon", shape2 |-> "canon", orig1 |-> JsNull,
      entities |-> [i \in 1..n |-> Pipe1]] : n \in ProgressTotals}

\* one model is loaded and validated with the built-in pack
ProgressNext ==
    \/ \E f \in ProgressFiles : ifcFile = NoFile /\ LoadFile(f)
    \/ LoadResult
    \/ HandleRunValidation(IFCSG_RULE_PACK_V1)
    \/ \E w \in 1..Len(workers) : WorkerValidate(w)
    \/ \E w \in 1..Len(workers) : OnWorkerMessage(w)

SpecProgress == ExportInit /\ [][ProgressNext]_vars

\* C29: within one validation run the stored progress never decreases and
\* stays within 0..100.
C29_ProgressMonotone ==
    [][Len(workers') = Len(workers)
          => /\ validationProgress' >= validationProgress
             /\ validationProgress' \in 0..100]_vars

\* run w can still take a step of its own: its worker runs the request, a
\* posted message is delivered, or the worker script fails
CanProceed(w) ==
    \/ ENABLED WorkerValidate(w)
    \/ ENABLED OnWorkerMessage(w)
    \/ ENABLED OnWorkerError(w)

\* C28: every started validation run eventually ends; so a started run
\* whose promise is still pending can take a step towards its end.
C28_PendingRunProceeds ==
    \A w \in 1..Len(workers) :
        workers[w].promise = "pending" => CanProceed(w)

====
